---------------------------- MODULE Spec2Model ----------------------------
(***************************************************************************)
(* Pivot-compensated instancing of asset groups                            *)
(* (assets/build/active-objects/build.py), with the poster's blend import  *)
(* (poster/blendlib.py) and the stage's rig rotation                       *)
(* (assets/build/stage/build.py).                                          *)
(*                                                                         *)
(* Nine specifications share this module:                                  *)
(*   SpecLoader   load_collection_from_blend: candidate ladder and cache   *)
(*   SpecBridge   choose_anchor_offset and its _TempCollectionLink, one    *)
(*                bpy call at a time                                       *)
(*   SpecPlace    sequences of instance_collection_pivoted calls           *)
(*   SpecCompose  one instance_collection_pivoted call over the rotations  *)
(*                and scales of a placement                                *)
(*   SpecBuild    build_scene: the loop over the four component slots,     *)
(*                the camera sweep and the save                            *)
(*   SpecAnchor   choose_anchor_offset as one call, over groups that       *)
(*                exercise the name lookup, the scores and the box         *)
(*   SpecScore    _score_anchor_candidate on one node, over names, types   *)
(*                and collections                                          *)
(*   SpecManifest blendlib.apply_manifest: the loop over import_blend      *)
(*                objects, run after run on one scene                      *)
(*   SpecStage    apply_local_z_delta_deg: calls on one rig empty          *)
(*                                                                         *)
(* Names are sequences of one-character strings, so that prefix tests,     *)
(* sorting and suffix stripping are computed the way the Python code       *)
(* computes them on str values.                                            *)
(***************************************************************************)
EXTENDS Integers, Sequences, FiniteSets, TLC

VARIABLES
    lib,        \* the .blend library file behind blend_path
    cache,      \* _LOADED_COLLECTION_CACHE: BlendCollectionKey -> group name
    call,       \* what the last load_collection_from_blend call did
    data,       \* bpy.data and the scene: collections, their links, objects
                \* (under SpecStage: the one rig empty)
    group,      \* the loaded asset group as it was when it was loaded
    ctx,        \* the fields of the _TempCollectionLink in use
    frame,      \* position and locals of the instance_collection_pivoted call
    log,        \* the bpy calls of the current evaluation context, in order
                \* (the warnings of a build; the passes of a manifest run;
                \* the deltas applied to a rig empty)
    snap,       \* collections and links when the evaluation context opened
    placed      \* per slot, the arguments of its last completed placement

loaderVars == <<lib, cache, call>>

sceneVars == <<data, group, ctx, frame, log, snap, placed>>

vars == <<lib, cache, call, data, group, ctx, frame, log, snap, placed>>

---------------------------------------------------------------------------
(* Strings                                                                 *)

\* Python's None where a str is expected: a one-element sequence no name equals.
NoneName == <<"<None>">>

EXPORT_PREFIX == <<"E", "X", "P", "O", "R", "T", "_">>

DEFAULT_COLLECTION == <<"C", "o", "l", "l", "e", "c", "t", "i", "o", "n">>

\* The characters names are made of, in code-point order.
Alphabet ==
    <<".", "0", "1", "2", "3", "4", "5", "6", "7", "8", "9",
      "A", "B", "C", "D", "E", "F", "G", "H", "I", "J", "K", "L", "M",
      "N", "O", "P", "Q", "R", "S", "T", "U", "V", "W", "X", "Y", "Z",
      "_",
      "a", "b", "c", "d", "e", "f", "g", "h", "i", "j", "k", "l", "m",
      "n", "o", "p", "q", "r", "s", "t", "u", "v", "w", "x", "y", "z">>

\* The rank of a character in code-point order (ord() up to a monotone map).
Code(c) == CHOOSE i \in 1..Len(Alphabet) : Alphabet[i] = c

\* str.startswith
StartsWith(n, p) == Len(n) >= Len(p) /\ SubSeq(n, 1, Len(p)) = p

\* a < b on Python str: code-point lexicographic, a proper prefix is smaller.
StrLess(a, b) ==
    \E k \in 0..Len(b) :
        /\ k <= Len(a)
        /\ SubSeq(a, 1, k) = SubSeq(b, 1, k)
        /\ \/ k = Len(a) /\ k < Len(b)
           \/ k < Len(a) /\ k < Len(b) /\ Code(a[k + 1]) < Code(b[k + 1])

MinOf(S) == CHOOSE m \in S : \A n \in S : m <= n

MaxOf(S) == CHOOSE m \in S : \A n \in S : m >= n

\* list.index(x)
FirstIndex(x, s) == CHOOSE i \in 1..Len(s) : s[i] = x /\ \A j \in 1..(i - 1) : s[j] # x

\* x in list
InSeq(x, s) == \E i \in 1..Len(s) : s[i] = x

RECURSIVE InsertSorted(_, _)
InsertSorted(x, s) ==
    IF s = <<>> THEN <<x>>
    ELSE IF StrLess(x, Head(s)) THEN <<x>> \o s
    ELSE <<Head(s)>> \o InsertSorted(x, Tail(s))

\* sorted(list of str): stable, ascending.
RECURSIVE Sorted(_)
Sorted(s) ==
    IF s = <<>> THEN <<>>
    ELSE InsertSorted(s[Len(s)], Sorted(SubSeq(s, 1, Len(s) - 1)))

\* for n in s: if n not in c: c.append(n)
RECURSIVE AppendNew(_, _)
AppendNew(c, s) ==
    IF s = <<>> THEN c
    ELSE AppendNew(IF InSeq(Head(s), c) THEN c ELSE Append(c, Head(s)), Tail(s))

---------------------------------------------------------------------------
(* Asset Library Loader                                                    *)

\* Largest number of groups in a library file.
MaxGroups == 2

N_Z == <<"Z">>
N_EXPORT == <<"E", "X", "P", "O", "R", "T">>
N_EXPORT_A == EXPORT_PREFIX \o <<"A">>
N_EXPORT_B == EXPORT_PREFIX \o <<"B">>

\* Group names a library file may hold.
GroupNames == {N_Z, N_EXPORT, N_EXPORT_A, N_EXPORT_B, DEFAULT_COLLECTION}

\* What loading one group does: a group with objects, a group without, or
\* bpy.data.libraries.load raising.
GroupStatus == {"nonempty", "empty", "raises"}

\* collection_name arguments.
RequestedNames == {NoneName, N_Z, N_EXPORT_B}

\* fallback_names arguments (an empty string is skipped by the code).
FallbackLists == {<<>>, << <<>>, N_Z, DEFAULT_COLLECTION>>}

\* link arguments.
LinkModes == BOOLEAN

\* The library file, and another spelling of its path.
BLEND_PATH == <<"assets", "lib.blend">>

BlendPaths == {BLEND_PATH, <<"assets", ".", "parts", "..", "lib.blend">>}

\* The (blend_path, collection_name, fallback_names, link) of the calls:
\* every name and fallback list linked from the path as resolved, and one
\* name from every spelling of the path and in every link mode.
LoadInputs ==
    {<<BLEND_PATH, n, f, TRUE>> : n \in RequestedNames, f \in FallbackLists}
    \cup {<<p, N_Z, <<>>, l>> : p \in BlendPaths, l \in LinkModes}

Distinct(s) == \A i, j \in 1..Len(s) : i # j => s[i] # s[j]

SeqsUpTo(S, n) == UNION {[1..k -> S] : k \in 0..n}

\* Library files: missing, unreadable, or a list of distinctly named groups
\* in the order bpy.data.libraries.load enumerates them.
Libraries ==
    {[exists |-> FALSE, listable |-> FALSE, groups |-> <<>>],
     [exists |-> TRUE, listable |-> FALSE, groups |-> <<>>]}
    \cup
    {[exists |-> TRUE, listable |-> TRUE, groups |-> g] :
        g \in {s \in SeqsUpTo([name : GroupNames, status : GroupStatus], MaxGroups) :
                  Distinct([i \in 1..Len(s) |-> s[i].name])}}

\* _list_collections_in_blend
Available(l) == [i \in 1..Len(l.groups) |-> l.groups[i].name]

\* _load_collection_from_blend for one candidate: "absent" is the None it
\* returns for a name the library does not hold.
LoadStatus(l, cand) ==
    IF \E i \in 1..Len(l.groups) : l.groups[i].name = cand
    THEN (CHOOSE g \in {l.groups[i] : i \in 1..Len(l.groups)} : g.name = cand).status
    ELSE "absent"

Loadable(l, cand) == LoadStatus(l, cand) \in {"nonempty", "empty"}

SortedExport_NoSort(available) == SelectSeq(available, LAMBDA n : StartsWith(n, EXPORT_PREFIX))

\* sorted(export_like)
SortedExport(available) ==
    Sorted(SelectSeq(available, LAMBDA n : StartsWith(n, EXPORT_PREFIX)))

\* The candidate list.
BuildCandidates(collection_name, fallback_names, available) ==
    LET c1 == IF collection_name # NoneName /\ collection_name # <<>>
              THEN <<collection_name>> ELSE <<>>
        c2 == c1 \o SelectSeq(fallback_names, LAMBDA n : n # <<>>)
        c3 == AppendNew(c2, SortedExport(available))
        c4 == IF InSeq(DEFAULT_COLLECTION, available) /\ ~InSeq(DEFAULT_COLLECTION, c3)
              THEN Append(c3, DEFAULT_COLLECTION) ELSE c3
    IN  AppendNew(c4, available)

\* The pick loop that keeps the first candidate it loaded (poster/blendlib.py).
RECURSIVE PickLoop_KeepFirst(_, _, _, _)
PickLoop_KeepFirst(l, cands, picked, tried) ==
    IF cands = <<>> THEN [picked |-> picked, tried |-> tried]
    ELSE LET cand == Head(cands)
             st == LoadStatus(l, cand)
         IN  IF st \in {"absent", "raises"}
             THEN PickLoop_KeepFirst(l, Tail(cands), picked, Append(tried, cand))
             ELSE IF st = "nonempty"
             THEN [picked |-> cand, tried |-> Append(tried, cand)]
             ELSE PickLoop_KeepFirst(l, Tail(cands),
                                     IF picked = NoneName THEN cand ELSE picked,
                                     Append(tried, cand))

\* A pick loop that never breaks out on a non-empty group.
RECURSIVE PickLoop_NoBreak(_, _, _, _)
PickLoop_NoBreak(l, cands, picked, tried) ==
    IF cands = <<>> THEN [picked |-> picked, tried |-> tried]
    ELSE LET cand == Head(cands)
             st == LoadStatus(l, cand)
         IN  IF st \in {"absent", "raises"}
             THEN PickLoop_NoBreak(l, Tail(cands), picked, Append(tried, cand))
             ELSE PickLoop_NoBreak(l, Tail(cands), cand, Append(tried, cand))

\* A pick loop that a raising candidate ends.
RECURSIVE PickLoop_RaiseEnds(_, _, _, _)
PickLoop_RaiseEnds(l, cands, picked, tried) ==
    IF cands = <<>> THEN [picked |-> picked, tried |-> tried]
    ELSE LET cand == Head(cands)
             st == LoadStatus(l, cand)
         IN  IF st = "raises"
             THEN [picked |-> picked, tried |-> Append(tried, cand)]
             ELSE IF st = "absent"
             THEN PickLoop_RaiseEnds(l, Tail(cands), picked, Append(tried, cand))
             ELSE IF st = "nonempty"
             THEN [picked |-> cand, tried |-> Append(tried, cand)]
             ELSE PickLoop_RaiseEnds(l, Tail(cands), cand, Append(tried, cand))

\* for cand in candidates: ... picked = coll; if n_objs > 0: break
\* `tried` lists the candidates handed to _load_collection_from_blend.
RECURSIVE PickLoop(_, _, _, _)
PickLoop(l, cands, picked, tried) ==
    IF cands = <<>> THEN [picked |-> picked, tried |-> tried]
    ELSE LET cand == Head(cands)
             st == LoadStatus(l, cand)
         IN  IF st \in {"absent", "raises"}
             THEN PickLoop(l, Tail(cands), picked, Append(tried, cand))
             ELSE IF st = "nonempty"
             THEN [picked |-> cand, tried |-> Append(tried, cand)]
             ELSE PickLoop(l, Tail(cands), cand, Append(tried, cand))

\* Path(blend_path).resolve() on the components of a path: "." goes, ".."
\* takes the component before it away.
RECURSIVE ResolveOnto(_, _)
ResolveOnto(done, rest) ==
    IF rest = <<>> THEN done
    ELSE IF Head(rest) = "." THEN ResolveOnto(done, Tail(rest))
    ELSE IF Head(rest) = ".."
    THEN ResolveOnto(IF done = <<>> THEN <<>> ELSE SubSeq(done, 1, Len(done) - 1), Tail(rest))
    ELSE ResolveOnto(Append(done, Head(rest)), Tail(rest))

ResolvePath(blend_path) == ResolveOnto(<<>>, blend_path)

BlendCollectionKey(blend_path, collection_name, link) ==
    [blend_path |-> blend_path, collection_name |-> collection_name, link |-> link]

\* A cache that serves only the calls that name a collection.
Cached_NamedOnly(c, key) == key \in DOMAIN c /\ key.collection_name # NoneName

\* A cache nothing is ever found in.
Cached_Never(c, key) == FALSE

\* key in _LOADED_COLLECTION_CACHE
Cached(c, key) == key \in DOMAIN c

\* A library whose empty listing is not noticed.
NoGroups_Unnoticed(available) == FALSE

\* not available
NoGroups(available) == available = <<>>

W_FILE == "Blend file not found"
W_LIST == "Failed to read collections"
W_EMPTY == "No collections found in blend library"
W_CAND == "Error loading collection"
W_NONE == "Could not load any collection"

\* The warnings of the pick loop: one for every candidate whose load raised.
LoopWarnings(l, tried) ==
    [i \in 1..Len(SelectSeq(tried, LAMBDA cand : LoadStatus(l, cand) = "raises")) |-> W_CAND]

NoCall ==
    [requested |-> NoneName, fallbacks |-> <<>>, link |-> TRUE, outcome |-> "none",
     listed |-> FALSE, candidates |-> <<>>, tried |-> <<>>, ret |-> NoneName,
     warned |-> <<>>, had |-> FALSE]

CallRecord(collection_name, fallback_names, link, had, r) ==
    [requested |-> collection_name, fallbacks |-> fallback_names, link |-> link,
     outcome |-> r.outcome, listed |-> r.listed, candidates |-> r.candidates,
     tried |-> r.tried, ret |-> r.ret, warned |-> r.warned, had |-> had]

\* A loader that caches the None of a search that loaded nothing.
LoadResult_CachesFailure(l, c, blend_path, collection_name, fallback_names, link) ==
    LET key == BlendCollectionKey(ResolvePath(blend_path), collection_name, link)
        available == Available(l)
        candidates == BuildCandidates(collection_name, fallback_names, available)
        loop == PickLoop(l, candidates, NoneName, <<>>)
        Result(outcome, listed, cands, tried, ret, warned, cch) ==
            [outcome |-> outcome, listed |-> listed, candidates |-> cands, tried |-> tried,
             ret |-> ret, warned |-> warned, cache |-> cch]
    IN  IF ~l.exists
        THEN Result("file_missing", FALSE, <<>>, <<>>, NoneName, <<W_FILE>>, c)
        ELSE IF Cached(c, key)
        THEN Result("hit", FALSE, <<>>, <<>>, c[key], <<>>, c)
        ELSE IF ~l.listable
        THEN Result("list_failed", TRUE, <<>>, <<>>, NoneName, <<W_LIST>>, c)
        ELSE IF NoGroups(available)
        THEN Result("no_groups", TRUE, <<>>, <<>>, NoneName, <<W_EMPTY>>, c)
        ELSE IF loop.picked = NoneName
        THEN Result("none_loadable", TRUE, candidates, loop.tried, NoneName,
                    Append(LoopWarnings(l, loop.tried), W_NONE),
                    (key :> NoneName) @@ c)
        ELSE Result("loaded", TRUE, candidates, loop.tried, loop.picked,
                    LoopWarnings(l, loop.tried), (key :> loop.picked) @@ c)

\* load_collection_from_blend(blend_path, collection_name=, link=, fallback_names=)
\* on library file l with cache c: what it returns, what it read from the
\* file (listed, tried), what it warned, and the cache it leaves.
LoadResult(l, c, blend_path, collection_name, fallback_names, link) ==
    LET key == BlendCollectionKey(ResolvePath(blend_path), collection_name, link)
        available == Available(l)
        candidates == BuildCandidates(collection_name, fallback_names, available)
        loop == PickLoop(l, candidates, NoneName, <<>>)
        Result(outcome, listed, cands, tried, ret, warned, cch) ==
            [outcome |-> outcome, listed |-> listed, candidates |-> cands, tried |-> tried,
             ret |-> ret, warned |-> warned, cache |-> cch]
    IN  IF ~l.exists
        THEN Result("file_missing", FALSE, <<>>, <<>>, NoneName, <<W_FILE>>, c)
        ELSE IF Cached(c, key)
        THEN Result("hit", FALSE, <<>>, <<>>, c[key], <<>>, c)
        ELSE IF ~l.listable
        THEN Result("list_failed", TRUE, <<>>, <<>>, NoneName, <<W_LIST>>, c)
        ELSE IF NoGroups(available)
        THEN Result("no_groups", TRUE, <<>>, <<>>, NoneName, <<W_EMPTY>>, c)
        ELSE IF loop.picked = NoneName
        THEN Result("none_loadable", TRUE, candidates, loop.tried, NoneName,
                    Append(LoopWarnings(l, loop.tried), W_NONE), c)
        ELSE Result("loaded", TRUE, candidates, loop.tried, loop.picked,
                    LoopWarnings(l, loop.tried), (key :> loop.picked) @@ c)

\* One call on the library file of SpecLoader; `had` records whether its key
\* was in the cache when it was made.
LoadCollection(blend_path, collection_name, fallback_names, link) ==
    \E r \in {LoadResult(lib, cache, blend_path, collection_name, fallback_names, link)} :
        /\ call' = CallRecord(collection_name, fallback_names, link,
                              BlendCollectionKey(ResolvePath(blend_path), collection_name, link)
                                  \in DOMAIN cache,
                              r)
        /\ cache' = r.cache
        /\ UNCHANGED <<lib, sceneVars>>

LoadCall ==
    \E inp \in LoadInputs : LoadCollection(inp[1], inp[2], inp[3], inp[4])

\* The scene variables of a specification that does not use them.
SceneUnused ==
    /\ data = <<>>
    /\ group = <<>>
    /\ ctx = <<>>
    /\ frame = <<>>
    /\ log = <<>>
    /\ snap = <<>>
    /\ placed = <<>>

LoaderInit ==
    /\ lib \in Libraries
    /\ cache = <<>>
    /\ call = NoCall
    /\ SceneUnused

LoaderNext == LoadCall

SpecLoader == LoaderInit /\ [][LoaderNext]_vars

---------------------------------------------------------------------------
(* Vectors, names and datablocks                                           *)

Zero3 == <<0, 0, 0>>

VAdd(a, b) == <<a[1] + b[1], a[2] + b[2], a[3] + b[3]>>

\* A negation that negates nothing.
VNeg_Same(a) == a

VNeg(a) == <<-a[1], -a[2], -a[3]>>

\* Scale components are kept in halves, so that 0.5, 1 and 2 are integers.
UnitScale == <<2, 2, 2>>

IsDigit(c) == c \in {"0", "1", "2", "3", "4", "5", "6", "7", "8", "9"}

EndsWith(n, p) == Len(n) >= Len(p) /\ SubSeq(n, Len(n) - Len(p) + 1, Len(n)) = p

\* sub in n
Contains(n, p) == \E k \in 0..(Len(n) - Len(p)) : SubSeq(n, k + 1, k + Len(p)) = p

\* base_name: _SUFFIX_RE = r"\.\d+$" removed from the end of the name.
BaseName(n) ==
    LET dots == {k \in 1..(Len(n) - 1) :
                    n[k] = "." /\ \A j \in (k + 1)..Len(n) : IsDigit(n[j])}
    IN  IF dots = {} THEN n ELSE SubSeq(n, 1, (CHOOSE k \in dots : TRUE) - 1)

\* str.lower on the characters of Alphabet.
LowerChar(c) == IF Code(c) \in 12..37 THEN Alphabet[Code(c) + 27] ELSE c

Lower(n) == [i \in 1..Len(n) |-> LowerChar(n[i])]

\* The name bpy.data.<kind>.new gives when `base` is taken: base.001, ...
DupName(base, k) == IF k = 0 THEN base ELSE base \o <<".", "0", "0", Alphabet[k + 2]>>

NewName(base, taken) ==
    DupName(base, CHOOSE k \in 0..9 :
                      DupName(base, k) \notin taken
                      /\ \A j \in 0..(k - 1) : DupName(base, j) \in taken)

SCENE_COLLECTION == <<"S", "c", "e", "n", "e">>
EXPORT_COL == <<"E", "X", "P", "O", "R", "T", "_", "E", "M">>
SRC_COL == <<"S", "R", "C", "_", "E", "M">>
RIG_COL == <<"R", "I", "G", "_", "E", "M">>
COMPONENTS == <<"C", "O", "M", "P", "O", "N", "E", "N", "T", "S">>
RIG_ROOT_OBJ == <<"R", "I", "G", "_", "E", "M", "_", "R", "O", "O", "T">>
TMP_EVAL == <<"_", "_", "T", "M", "P", "_", "E", "V", "A", "L", "_", "_">>
RIG_PREFIX == <<"R", "I", "G", "_">>

N_Box == <<"B", "o", "x">>
N_ANCHOR_PT == <<"A", "N", "C", "H", "O", "R", "_", "P", "T">>
N_ANCHOR_PT_001 == <<"A", "N", "C", "H", "O", "R", "_", "P", "T", ".", "0", "0", "1">>
N_RIG_STAGE_ROOT == <<"R", "I", "G", "_", "S", "T", "A", "G", "E", "_", "R", "O", "O", "T">>
N_RIG_A == <<"R", "I", "G", "_", "A">>
N_MISSING == <<"Q">>

\* A bpy.types.Object datablock.
ObjRec(type, parent, location, bound_box) ==
    [type |-> type, parent |-> parent, location |-> location,
     rotation_euler |-> Zero3, scale |-> UnitScale,
     matrix_parent_inverse |-> "identity", empty_display_type |-> "PLAIN_AXES",
     instance_type |-> "NONE", instance_collection |-> NoneName,
     matrix_world |-> Zero3, bound_box |-> bound_box]

\* A function as the table of its values, computed once.
Table(f) == f @@ <<>>

\* bpy.data.collections.new(name)
NewCollection(d, name) ==
    [d EXCEPT !.collections = @ \cup {name},
              !.children = (name :> {}) @@ @,
              !.objects_in = (name :> {}) @@ @]

\* parent.children.link(child)
LinkChild(d, parent, child) == [d EXCEPT !.children[parent] = @ \cup {child}]

\* parent.children.unlink(child)
UnlinkChild(d, parent, child) == [d EXCEPT !.children[parent] = @ \ {child}]

\* bpy.data.collections.remove(name): the datablock goes, and with it every
\* link to it and every link from it.
RemoveCollection(d, name) ==
    [d EXCEPT !.collections = @ \ {name},
              !.children = Table([c \in DOMAIN @ \ {name} |-> @[c] \ {name}]),
              !.objects_in = Table([c \in DOMAIN @ \ {name} |-> @[c]])]

\* obj.users_collection
UsersCollection(d, o) == {c \in DOMAIN d.objects_in : o \in d.objects_in[c]}

RECURSIVE Descendants(_, _, _)
Descendants(d, c, n) ==
    IF n = 0 THEN {c}
    ELSE {c} \cup UNION {Descendants(d, k, n - 1) : k \in d.children[c]}

\* The collections below c, c included.
Below(d, c) == Descendants(d, c, Cardinality(d.collections))

\* Whether the view layer of the scene holds collection c.
InScene(d, c) == c \in Below(d, SCENE_COLLECTION)

\* list(coll.all_objects): the objects of coll and of the collections below it.
AllObjects(d, c) ==
    SelectSeq(group.order,
              LAMBDA o : \E k \in Below(d, c) : o \in d.objects_in[k])

---------------------------------------------------------------------------
(* The scene before the components are placed, and the asset groups        *)

GroupRoot == N_EXPORT_A

\* The group of the spec's scenario: a box (0,0,0)-(10,10,10) and a marker
\* ANCHOR_PT at (5,5,10).
TemplateBox ==
    [root |-> GroupRoot,
     collections |-> {GroupRoot},
     children |-> (GroupRoot :> {}),
     objects_in |-> (GroupRoot :> {N_Box, N_ANCHOR_PT}),
     order |-> <<N_Box, N_ANCHOR_PT>>,
     objects |-> (N_Box :> ObjRec("MESH", NoneName, Zero3, <<Zero3, <<10, 10, 10>>>>)
                  @@ N_ANCHOR_PT :> ObjRec("EMPTY", NoneName, <<5, 5, 10>>, <<>>))]

\* A rigged group: a root marker in a RIG_ child collection, with a box and
\* a marker parented to it.
TemplateRig ==
    [root |-> GroupRoot,
     collections |-> {GroupRoot, N_RIG_A},
     children |-> (GroupRoot :> {N_RIG_A} @@ N_RIG_A :> {}),
     objects_in |-> (GroupRoot :> {N_Box} @@ N_RIG_A :> {N_RIG_STAGE_ROOT, N_ANCHOR_PT_001}),
     order |-> <<N_Box, N_ANCHOR_PT_001, N_RIG_STAGE_ROOT>>,
     objects |-> (N_Box :> ObjRec("MESH", N_RIG_STAGE_ROOT, <<1, 1, 0>>, <<Zero3, <<4, 4, 4>>>>)
                  @@ N_ANCHOR_PT_001 :> ObjRec("EMPTY", N_RIG_STAGE_ROOT, <<3, 5, 10>>, <<>>)
                  @@ N_RIG_STAGE_ROOT :> ObjRec("EMPTY", NoneName, <<2, 0, 0>>, <<>>))]

GroupTemplates == {TemplateBox, TemplateRig}

\* build_scene down to the component loop, then a loaded group t: the
\* export collections, the rig root, and the group's datablocks, which no
\* collection of the scene holds.
BaseData(t) ==
    [collections |-> {EXPORT_COL, SRC_COL, RIG_COL, COMPONENTS} \cup t.collections,
     children |-> (SCENE_COLLECTION :> {EXPORT_COL}
                   @@ EXPORT_COL :> {SRC_COL, RIG_COL}
                   @@ SRC_COL :> {COMPONENTS}
                   @@ RIG_COL :> {}
                   @@ COMPONENTS :> {}
                   @@ t.children),
     objects_in |-> (SCENE_COLLECTION :> {}
                     @@ EXPORT_COL :> {}
                     @@ SRC_COL :> {}
                     @@ RIG_COL :> {RIG_ROOT_OBJ}
                     @@ COMPONENTS :> {}
                     @@ t.objects_in),
     objects |-> (RIG_ROOT_OBJ :> ObjRec("EMPTY", NoneName, Zero3, <<>>) @@ t.objects)]

---------------------------------------------------------------------------
(* Anchor candidates, picked before the evaluation context opens           *)

\* A lookup whose suffix-stripped pass comes before the exact one.
FindObjectByBaseName_StrippedFirst(objs, desired) ==
    LET desired_b == BaseName(desired)
        desired_l == Lower(desired_b)
        exact == {i \in 1..Len(objs) : objs[i] = desired}
        based == {i \in 1..Len(objs) : BaseName(objs[i]) = desired_b}
        lowered == {i \in 1..Len(objs) : Lower(BaseName(objs[i])) = desired_l}
    IN  IF desired = <<>> THEN NoneName
        ELSE IF based # {} THEN objs[MinOf(based)]
        ELSE IF exact # {} THEN objs[MinOf(exact)]
        ELSE IF lowered # {} THEN objs[MinOf(lowered)]
        ELSE NoneName

\* _find_object_by_base_name: exact, then suffix-stripped, then lower-cased.
FindObjectByBaseName(objs, desired) ==
    LET desired_b == BaseName(desired)
        desired_l == Lower(desired_b)
        exact == {i \in 1..Len(objs) : objs[i] = desired}
        based == {i \in 1..Len(objs) : BaseName(objs[i]) = desired_b}
        lowered == {i \in 1..Len(objs) : Lower(BaseName(objs[i])) = desired_l}
    IN  IF desired = <<>> THEN NoneName
        ELSE IF exact # {} THEN objs[MinOf(exact)]
        ELSE IF based # {} THEN objs[MinOf(based)]
        ELSE IF lowered # {} THEN objs[MinOf(lowered)]
        ELSE NoneName

\* explicit_obj: the group's objects first, then bpy.data.objects (which
\* Blender keeps ordered by name) by base name.
ExplicitObj(d, objs, anchor_name) ==
    IF anchor_name = NoneName \/ anchor_name = <<>> THEN NoneName
    ELSE LET found == FindObjectByBaseName(objs, anchor_name)
             global == {o \in DOMAIN d.objects : BaseName(o) = BaseName(anchor_name)}
         IN  IF found # NoneName THEN found
             ELSE IF global # {}
             THEN CHOOSE o \in global : \A q \in global : q = o \/ StrLess(o, q)
             ELSE NoneName

\* _object_is_in_rig_collection
ObjectIsInRigCollection(d, o) ==
    \E c \in UsersCollection(d, o) : StartsWith(c, RIG_PREFIX)

\* A score whose PCB bonuses go to the names RIG_PCB_G_ and RIG_PCB_ROOT alone.
ScoreAnchorCandidate_ExactPcb(d, o) ==
    LET b == BaseName(o) IN
      (IF d.objects[o].type = "EMPTY" THEN 5 ELSE 0)
    + (IF ObjectIsInRigCollection(d, o) THEN 100 ELSE 0)
    + (IF StartsWith(b, RIG_PREFIX) THEN 20 ELSE 0)
    + (IF EndsWith(b, <<"_", "R", "O", "O", "T">>) THEN 60 ELSE 0)
    + (IF Contains(b, <<"R", "O", "O", "T">>) THEN 30 ELSE 0)
    + (IF b = <<"R", "I", "G", "_", "S", "T", "A", "G", "E", "_", "R", "O", "O", "T">> THEN 200 ELSE 0)
    + (IF b = <<"R", "I", "G", "_", "J", "O", "Y", "S", "T", "I", "C", "K", "_", "R", "O", "O", "T">> THEN 180 ELSE 0)
    + (IF b = <<"R", "I", "G", "_", "P", "C", "B", "_", "G", "_">> THEN 150 ELSE 0)
    + (IF b = <<"R", "I", "G", "_", "P", "C", "B", "_", "R", "O", "O", "T">> THEN 160 ELSE 0)

\* _score_anchor_candidate
ScoreAnchorCandidate(d, o) ==
    LET b == BaseName(o) IN
      (IF d.objects[o].type = "EMPTY" THEN 5 ELSE 0)
    + (IF ObjectIsInRigCollection(d, o) THEN 100 ELSE 0)
    + (IF StartsWith(b, RIG_PREFIX) THEN 20 ELSE 0)
    + (IF EndsWith(b, <<"_", "R", "O", "O", "T">>) THEN 60 ELSE 0)
    + (IF Contains(b, <<"R", "O", "O", "T">>) THEN 30 ELSE 0)
    + (IF b = <<"R", "I", "G", "_", "S", "T", "A", "G", "E", "_", "R", "O", "O", "T">> THEN 200 ELSE 0)
    + (IF b = <<"R", "I", "G", "_", "J", "O", "Y", "S", "T", "I", "C", "K", "_", "R", "O", "O", "T">> THEN 180 ELSE 0)
    + (IF StartsWith(b, <<"R", "I", "G", "_", "P", "C", "B", "_", "G", "_">>) THEN 150 ELSE 0)
    + (IF StartsWith(b, <<"R", "I", "G", "_", "P", "C", "B", "_", "R", "O", "O", "T">>) THEN 160 ELSE 0)

\* A max that keeps the last of the highest-scoring empties.
RigBest_LastOfTies(d, objs) ==
    LET empties == SelectSeq(objs, LAMBDA o : d.objects[o].type = "EMPTY")
        best == {i \in 1..Len(empties) :
                    \A j \in 1..Len(empties) :
                        ScoreAnchorCandidate(d, empties[i]) >= ScoreAnchorCandidate(d, empties[j])}
    IN  IF empties = <<>> THEN NoneName ELSE empties[MaxOf(best)]

\* rig_best = max(empties, key=_score_anchor_candidate): the first of the
\* highest-scoring empties, None without empties.
RigBest(d, objs) ==
    LET empties == SelectSeq(objs, LAMBDA o : d.objects[o].type = "EMPTY")
        best == {i \in 1..Len(empties) :
                    \A j \in 1..Len(empties) :
                        ScoreAnchorCandidate(d, empties[i]) >= ScoreAnchorCandidate(d, empties[j])}
    IN  IF empties = <<>> THEN NoneName ELSE empties[MinOf(best)]

\* pivot_mode aliases.
NormalizeMode(m) ==
    IF m = "CENTER" THEN "BBOX_CENTER" ELSE IF m = "MIN" THEN "BBOX_MIN" ELSE m

---------------------------------------------------------------------------
(* Evaluated transforms                                                    *)

\* The world translation the dependency graph computes for o: the sum of
\* the local translations up the parent chain (the nodes of the modelled
\* groups and the rig root carry no rotation and unit scale).
RECURSIVE WorldTranslation(_, _, _)
WorldTranslation(d, o, n) ==
    IF n = 0 \/ d.objects[o].parent = NoneName THEN d.objects[o].location
    ELSE VAdd(WorldTranslation(d, d.objects[o].parent, n - 1), d.objects[o].location)

\* Whether the scene's dependency graph holds o: some collection of o is
\* linked, directly or not, under the scene collection.
Evaluated(d, o) == \E c \in UsersCollection(d, o) : InScene(d, c)

\* obj.evaluated_get(depsgraph).matrix_world, or obj.matrix_world without a
\* depsgraph: the stored matrix of a node that was never evaluated is stale.
MatrixWorld(d, o, depsgraph) ==
    IF depsgraph # "None" /\ Evaluated(d, o)
    THEN WorldTranslation(d, o, Cardinality(DOMAIN d.objects))
    ELSE d.objects[o].matrix_world

\* A read that sees the node through an instance of its group: displaced
\* by where an instancer stands in the scene.
EvalTranslation_ThroughInstance(d, o, depsgraph) ==
    LET instancers == {i \in DOMAIN d.objects : d.objects[i].instance_type = "COLLECTION"}
    IN  IF instancers = {} THEN MatrixWorld(d, o, depsgraph)
        ELSE VAdd(MatrixWorld(d, o, depsgraph),
                  WorldTranslation(d, CHOOSE i \in instancers : TRUE,
                                   Cardinality(DOMAIN d.objects)))

\* _eval_translation
EvalTranslation(d, o, depsgraph) == MatrixWorld(d, o, depsgraph)

MeshLike == {"MESH", "CURVE", "SURFACE", "META", "FONT"}

\* The objects compute_collection_bbox_eval reads.
BboxObjects(d, coll) ==
    SelectSeq(AllObjects(d, coll),
              LAMBDA o : d.objects[o].type \in MeshLike /\ d.objects[o].bound_box # <<>>)

Corners(bb) ==
    {<<x, y, z>> : x \in {bb[1][1], bb[2][1]}, y \in {bb[1][2], bb[2][2]},
                   z \in {bb[1][3], bb[2][3]}}

\* compute_collection_bbox_eval: <<bb_min, bb_max>>, or <<>> for None.
ComputeCollectionBboxEval(d, coll, depsgraph) ==
    LET objs == BboxObjects(d, coll)
        pts == UNION {{VAdd(MatrixWorld(d, objs[i], depsgraph), c) :
                          c \in Corners(d.objects[objs[i]].bound_box)} :
                      i \in 1..Len(objs)}
        Lo(k) == MinOf({p[k] : p \in pts})
        Hi(k) == MaxOf({p[k] : p \in pts})
    IN  IF pts = {} THEN <<>>
        ELSE <<<<Lo(1), Lo(2), Lo(3)>>, <<Hi(1), Hi(2), Hi(3)>>>>

\* (bb_min + bb_max) * 0.5; the modelled boxes have even sums.
Midpoint(a, b) == <<(a[1] + b[1]) \div 2, (a[2] + b[2]) \div 2, (a[3] + b[3]) \div 2>>

AnchorResult(offset, branch, name, reads) ==
    [offset |-> offset, reason |-> [branch |-> branch, name |-> name], reads |-> reads]

\* A body whose OBJECT branch, on a miss, goes on down the AUTO ladder.
AnchorBody_ObjectFallsThrough(d, coll, depsgraph, f) ==
    LET ex == f.explicit_obj
        rb == f.rig_best
        bb == ComputeCollectionBboxEval(d, coll, depsgraph)
        meshes == BboxObjects(d, coll)
    IN  CASE f.pivot_mode = "OBJECT" /\ ex # NoneName ->
                 AnchorResult(EvalTranslation(d, ex, depsgraph), "OBJECT", ex, <<ex>>)
          [] f.pivot_mode = "ORIGIN" -> AnchorResult(Zero3, "ORIGIN", NoneName, <<>>)
          [] f.pivot_mode \in {"BBOX_CENTER", "BBOX_MIN"} ->
                 IF bb = <<>>
                 THEN AnchorResult(Zero3, "bbox missing; using ORIGIN", NoneName, meshes)
                 ELSE IF f.pivot_mode = "BBOX_MIN"
                 THEN AnchorResult(bb[1], "BBOX_MIN", NoneName, meshes)
                 ELSE AnchorResult(Midpoint(bb[1], bb[2]), "BBOX_CENTER", NoneName, meshes)
          [] f.pivot_mode = "RIG_ROOT" ->
                 IF ex # NoneName
                 THEN AnchorResult(EvalTranslation(d, ex, depsgraph), "RIG_ROOT explicit", ex, <<ex>>)
                 ELSE IF rb # NoneName /\ ScoreAnchorCandidate(d, rb) > 0
                 THEN AnchorResult(EvalTranslation(d, rb, depsgraph), "RIG_ROOT auto", rb, <<rb>>)
                 ELSE AnchorResult(Zero3, "RIG_ROOT not found; using ORIGIN", NoneName, <<>>)
          [] OTHER ->
                 IF ex # NoneName
                 THEN AnchorResult(EvalTranslation(d, ex, depsgraph), "AUTO explicit", ex, <<ex>>)
                 ELSE IF rb # NoneName /\ ScoreAnchorCandidate(d, rb) >= 100
                 THEN AnchorResult(EvalTranslation(d, rb, depsgraph), "AUTO rig", rb, <<rb>>)
                 ELSE IF bb # <<>>
                 THEN AnchorResult(Midpoint(bb[1], bb[2]), "AUTO bbox_center", NoneName, meshes)
                 ELSE AnchorResult(Zero3, "AUTO origin", NoneName, meshes)

\* A body whose bounding-box modes give way to a named anchor that exists.
AnchorBody_BboxAfterExplicit(d, coll, depsgraph, f) ==
    LET ex == f.explicit_obj
        rb == f.rig_best
        bb == ComputeCollectionBboxEval(d, coll, depsgraph)
        meshes == BboxObjects(d, coll)
    IN  CASE f.pivot_mode = "OBJECT" ->
                 IF ex = NoneName
                 THEN AnchorResult(Zero3, "OBJECT not found; using ORIGIN", f.anchor_name, <<>>)
                 ELSE AnchorResult(EvalTranslation(d, ex, depsgraph), "OBJECT", ex, <<ex>>)
          [] f.pivot_mode = "ORIGIN" -> AnchorResult(Zero3, "ORIGIN", NoneName, <<>>)
          [] f.pivot_mode \in {"BBOX_CENTER", "BBOX_MIN"} /\ ex = NoneName ->
                 IF bb = <<>>
                 THEN AnchorResult(Zero3, "bbox missing; using ORIGIN", NoneName, meshes)
                 ELSE IF f.pivot_mode = "BBOX_MIN"
                 THEN AnchorResult(bb[1], "BBOX_MIN", NoneName, meshes)
                 ELSE AnchorResult(Midpoint(bb[1], bb[2]), "BBOX_CENTER", NoneName, meshes)
          [] f.pivot_mode = "RIG_ROOT" ->
                 IF ex # NoneName
                 THEN AnchorResult(EvalTranslation(d, ex, depsgraph), "RIG_ROOT explicit", ex, <<ex>>)
                 ELSE IF rb # NoneName /\ ScoreAnchorCandidate(d, rb) > 0
                 THEN AnchorResult(EvalTranslation(d, rb, depsgraph), "RIG_ROOT auto", rb, <<rb>>)
                 ELSE AnchorResult(Zero3, "RIG_ROOT not found; using ORIGIN", NoneName, <<>>)
          [] OTHER ->
                 IF ex # NoneName
                 THEN AnchorResult(EvalTranslation(d, ex, depsgraph), "AUTO explicit", ex, <<ex>>)
                 ELSE IF rb # NoneName /\ ScoreAnchorCandidate(d, rb) >= 100
                 THEN AnchorResult(EvalTranslation(d, rb, depsgraph), "AUTO rig", rb, <<rb>>)
                 ELSE IF bb # <<>>
                 THEN AnchorResult(Midpoint(bb[1], bb[2]), "AUTO bbox_center", NoneName, meshes)
                 ELSE AnchorResult(Zero3, "AUTO origin", NoneName, meshes)

\* A body whose AUTO ladder takes the best marker whatever it scores.
AnchorBody_AutoAnyScore(d, coll, depsgraph, f) ==
    LET ex == f.explicit_obj
        rb == f.rig_best
        bb == ComputeCollectionBboxEval(d, coll, depsgraph)
        meshes == BboxObjects(d, coll)
    IN  CASE f.pivot_mode = "OBJECT" ->
                 IF ex = NoneName
                 THEN AnchorResult(Zero3, "OBJECT not found; using ORIGIN", f.anchor_name, <<>>)
                 ELSE AnchorResult(EvalTranslation(d, ex, depsgraph), "OBJECT", ex, <<ex>>)
          [] f.pivot_mode = "ORIGIN" -> AnchorResult(Zero3, "ORIGIN", NoneName, <<>>)
          [] f.pivot_mode \in {"BBOX_CENTER", "BBOX_MIN"} ->
                 IF bb = <<>>
                 THEN AnchorResult(Zero3, "bbox missing; using ORIGIN", NoneName, meshes)
                 ELSE IF f.pivot_mode = "BBOX_MIN"
                 THEN AnchorResult(bb[1], "BBOX_MIN", NoneName, meshes)
                 ELSE AnchorResult(Midpoint(bb[1], bb[2]), "BBOX_CENTER", NoneName, meshes)
          [] f.pivot_mode = "RIG_ROOT" ->
                 IF ex # NoneName
                 THEN AnchorResult(EvalTranslation(d, ex, depsgraph), "RIG_ROOT explicit", ex, <<ex>>)
                 ELSE IF rb # NoneName /\ ScoreAnchorCandidate(d, rb) > 0
                 THEN AnchorResult(EvalTranslation(d, rb, depsgraph), "RIG_ROOT auto", rb, <<rb>>)
                 ELSE AnchorResult(Zero3, "RIG_ROOT not found; using ORIGIN", NoneName, <<>>)
          [] OTHER ->
                 IF ex # NoneName
                 THEN AnchorResult(EvalTranslation(d, ex, depsgraph), "AUTO explicit", ex, <<ex>>)
                 ELSE IF rb # NoneName /\ ScoreAnchorCandidate(d, rb) > 0
                 THEN AnchorResult(EvalTranslation(d, rb, depsgraph), "AUTO rig", rb, <<rb>>)
                 ELSE IF bb # <<>>
                 THEN AnchorResult(Midpoint(bb[1], bb[2]), "AUTO bbox_center", NoneName, meshes)
                 ELSE AnchorResult(Zero3, "AUTO origin", NoneName, meshes)

\* The body of `with _TempCollectionLink(coll) as depsgraph:` and the return
\* after it: the offset, the reason, and the objects whose matrix was read.
AnchorBody(d, coll, depsgraph, f) ==
    LET ex == f.explicit_obj
        rb == f.rig_best
        bb == ComputeCollectionBboxEval(d, coll, depsgraph)
        meshes == BboxObjects(d, coll)
    IN  CASE f.pivot_mode = "OBJECT" ->
                 IF ex = NoneName
                 THEN AnchorResult(Zero3, "OBJECT not found; using ORIGIN", f.anchor_name, <<>>)
                 ELSE AnchorResult(EvalTranslation(d, ex, depsgraph), "OBJECT", ex, <<ex>>)
          [] f.pivot_mode = "ORIGIN" -> AnchorResult(Zero3, "ORIGIN", NoneName, <<>>)
          [] f.pivot_mode \in {"BBOX_CENTER", "BBOX_MIN"} ->
                 IF bb = <<>>
                 THEN AnchorResult(Zero3, "bbox missing; using ORIGIN", NoneName, meshes)
                 ELSE IF f.pivot_mode = "BBOX_MIN"
                 THEN AnchorResult(bb[1], "BBOX_MIN", NoneName, meshes)
                 ELSE AnchorResult(Midpoint(bb[1], bb[2]), "BBOX_CENTER", NoneName, meshes)
          [] f.pivot_mode = "RIG_ROOT" ->
                 IF ex # NoneName
                 THEN AnchorResult(EvalTranslation(d, ex, depsgraph), "RIG_ROOT explicit", ex, <<ex>>)
                 ELSE IF rb # NoneName /\ ScoreAnchorCandidate(d, rb) > 0
                 THEN AnchorResult(EvalTranslation(d, rb, depsgraph), "RIG_ROOT auto", rb, <<rb>>)
                 ELSE AnchorResult(Zero3, "RIG_ROOT not found; using ORIGIN", NoneName, <<>>)
          [] OTHER ->
                 IF ex # NoneName
                 THEN AnchorResult(EvalTranslation(d, ex, depsgraph), "AUTO explicit", ex, <<ex>>)
                 ELSE IF rb # NoneName /\ ScoreAnchorCandidate(d, rb) >= 100
                 THEN AnchorResult(EvalTranslation(d, rb, depsgraph), "AUTO rig", rb, <<rb>>)
                 ELSE IF bb # <<>>
                 THEN AnchorResult(Midpoint(bb[1], bb[2]), "AUTO bbox_center", NoneName, meshes)
                 ELSE AnchorResult(Zero3, "AUTO origin", NoneName, meshes)

---------------------------------------------------------------------------
(* _TempCollectionLink: the evaluation context                             *)
(* Its steps are operators on st = [data, ctx, log]; `ok` says whether the *)
(* bpy call of the step returned (TRUE) or raised into its except branch.  *)

\* Most helper collections that failed removals may leave behind.
MaxLeaked == 1

NoCtx ==
    [coll |-> NoneName, helper |-> NoneName, did_link_child |-> FALSE,
     did_link_helper |-> FALSE, depsgraph |-> "None"]

\* _TempCollectionLink.__init__
TempCollectionLink(coll) == [NoCtx EXCEPT !.coll = coll]

\* Whether the group is, right now, a child of the context's helper.
UnderHelper(st) ==
    /\ st.ctx.helper \in DOMAIN st.data.children
    /\ st.ctx.coll \in st.data.children[st.ctx.helper]

\* One bpy call in the log, with where the group was when it was made.
Event(st, op, ok) ==
    [op |-> op, ok |-> ok, attached |-> UnderHelper(st),
     in_scene |-> InScene(st.data, st.ctx.coll)]

Logged(st, op, ok) == Append(st.log, Event(st, op, ok))

\* __enter__: helper = bpy.data.collections.new("__TMP_EVAL__")
EnterNewOp(st) ==
    LET h == NewName(TMP_EVAL, st.data.collections)
    IN  [data |-> NewCollection(st.data, h),
         ctx |-> [st.ctx EXCEPT !.helper = h],
         log |-> Logged(st, "new", TRUE)]

\* __enter__: scene.collection.children.link(helper)
EnterLinkHelperOp(st, ok) ==
    [data |-> IF ok THEN LinkChild(st.data, SCENE_COLLECTION, st.ctx.helper) ELSE st.data,
     ctx |-> [st.ctx EXCEPT !.did_link_helper = ok],
     log |-> Logged(st, "link_helper", ok)]

\* __enter__: helper.children.link(self.coll)
EnterLinkChildOp(st, ok) ==
    [data |-> IF ok THEN LinkChild(st.data, st.ctx.helper, st.ctx.coll) ELSE st.data,
     ctx |-> [st.ctx EXCEPT !.did_link_child = ok],
     log |-> Logged(st, "link_child", ok)]

\* The stored matrix_world of the group's nodes after an evaluation of the
\* view layer: written back for the nodes the scene holds.
FlushMatrixWorld(d) ==
    [d EXCEPT !.objects =
        Table([o \in DOMAIN @ |->
                  IF o \in DOMAIN group.objects /\ Evaluated(d, o)
                  THEN [@[o] EXCEPT !.matrix_world =
                                       WorldTranslation(d, o, Cardinality(DOMAIN d.objects))]
                  ELSE @[o]])]

\* An evaluation that is given up when the group did not come under the helper.
EnterEvaluateOp_NeedsChild(st, ok) ==
    [data |-> IF ok /\ st.ctx.did_link_child THEN FlushMatrixWorld(st.data) ELSE st.data,
     ctx |-> [st.ctx EXCEPT !.depsgraph =
                               IF ok /\ st.ctx.did_link_child THEN "depsgraph" ELSE "None"],
     log |-> Logged(st, "evaluate", ok)]

\* __enter__: view_layer.update(); depsgraph = evaluated_depsgraph_get();
\* depsgraph.update(). A failure leaves self.depsgraph None.
EnterEvaluateOp(st, ok) ==
    [data |-> IF ok THEN FlushMatrixWorld(st.data) ELSE st.data,
     ctx |-> [st.ctx EXCEPT !.depsgraph = IF ok THEN "depsgraph" ELSE "None"],
     log |-> Logged(st, "evaluate", ok)]

RECURSIVE LogReads(_, _)
LogReads(st, reads) ==
    IF reads = <<>> THEN st
    ELSE LogReads([st EXCEPT !.log =
                      Logged(st, "read",
                             st.ctx.depsgraph # "None" /\ Evaluated(st.data, Head(reads)))],
                  Tail(reads))

\* The reads of evaluated matrices the body makes.
BodyOp(st, f) ==
    LogReads(st, AnchorBody(st.data, st.ctx.coll, st.ctx.depsgraph, f).reads)

\* An unlink that also empties the group of its own child collections.
ExitUnlinkChildOp_ClearsGroup(st, ok) ==
    IF st.ctx.helper # NoneName /\ st.ctx.did_link_child
    THEN [data |-> IF ok
                   THEN [UnlinkChild(st.data, st.ctx.helper, st.ctx.coll)
                            EXCEPT !.children[st.ctx.coll] = {}]
                   ELSE st.data,
          ctx |-> st.ctx,
          log |-> Logged(st, "unlink_child", ok)]
    ELSE st

\* __exit__: self.helper.children.unlink(self.coll)
ExitUnlinkChildOp(st, ok) ==
    IF st.ctx.helper # NoneName /\ st.ctx.did_link_child
    THEN [data |-> IF ok THEN UnlinkChild(st.data, st.ctx.helper, st.ctx.coll) ELSE st.data,
          ctx |-> st.ctx,
          log |-> Logged(st, "unlink_child", ok)]
    ELSE st

\* __exit__: scene.collection.children.unlink(self.helper)
ExitUnlinkHelperOp(st, ok) ==
    IF st.ctx.helper # NoneName /\ st.ctx.did_link_helper
    THEN [data |-> IF ok THEN UnlinkChild(st.data, SCENE_COLLECTION, st.ctx.helper)
                   ELSE st.data,
          ctx |-> st.ctx,
          log |-> Logged(st, "unlink_helper", ok)]
    ELSE st

\* A removal that only runs for a helper that was linked into the scene.
ExitRemoveOp_OnlyIfLinked(st, ok) ==
    IF st.ctx.helper # NoneName /\ st.ctx.did_link_helper
    THEN [data |-> IF ok THEN RemoveCollection(st.data, st.ctx.helper) ELSE st.data,
          ctx |-> st.ctx,
          log |-> Logged(st, "remove", ok)]
    ELSE st

\* __exit__: bpy.data.collections.remove(self.helper)
ExitRemoveOp(st, ok) ==
    IF st.ctx.helper # NoneName
    THEN [data |-> IF ok THEN RemoveCollection(st.data, st.ctx.helper) ELSE st.data,
          ctx |-> st.ctx,
          log |-> Logged(st, "remove", ok)]
    ELSE st

\* The helper collections in bpy.data, the one in use included.
Helpers(d) == {c \in d.collections : BaseName(c) = TMP_EVAL}

\* Whether the model lets this removal fail: not beyond MaxLeaked leftovers.
RemoveOutcomes(d) == IF Cardinality(Helpers(d)) <= MaxLeaked THEN {TRUE, FALSE} ELSE {TRUE}

---------------------------------------------------------------------------
(* choose_anchor_offset, one bpy call at a time                            *)

IdleFrame ==
    [pc |-> "idle", args |-> <<>>, pivot_mode |-> "AUTO", anchor_name |-> NoneName,
     explicit_obj |-> NoneName, rig_best |-> NoneName,
     offset |-> Zero3, reason |-> [branch |-> "", name |-> NoneName], raised |-> FALSE]

NoSnap == [collections |-> {}, children |-> <<>>]

\* spec["pivot_mode"] values (upper-cased) and spec["anchor_object"] values.
PivotModes == {"OBJECT", "ORIGIN", "BBOX_CENTER", "BBOX_MIN", "RIG_ROOT", "AUTO", "CENTER"}

AnchorNames == {NoneName, N_ANCHOR_PT, N_MISSING}

Cur == [data |-> data, ctx |-> ctx, log |-> log]

Become(st) == data' = st.data /\ ctx' = st.ctx /\ log' = st.log

At(pc) == frame.pc = pc

Goto(pc) == frame' = [frame EXCEPT !.pc = pc]

\* choose_anchor_offset up to the `with`: the candidates by name and type.
PrePick(d, pivot_mode, anchor_name) ==
    LET objs == AllObjects(d, group.root)
    IN  [IdleFrame EXCEPT !.pivot_mode = NormalizeMode(pivot_mode),
                          !.anchor_name = anchor_name,
                          !.explicit_obj = ExplicitObj(d, objs, anchor_name),
                          !.rig_best = RigBest(d, objs)]

Begin ==
    \E pivot_mode \in PivotModes, anchor_name \in AnchorNames :
        /\ At("idle")
        /\ frame' = [PrePick(data, pivot_mode, anchor_name) EXCEPT !.pc = "new"]
        /\ ctx' = TempCollectionLink(group.root)
        /\ log' = <<>>
        /\ snap' = [collections |-> data.collections, children |-> data.children]
        /\ UNCHANGED <<data, group, loaderVars, placed>>

EnterNew ==
    /\ At("new")
    /\ Become(EnterNewOp(Cur))
    /\ Goto("link_helper")
    /\ UNCHANGED <<group, snap, loaderVars, placed>>

EnterLinkHelper ==
    \E ok \in BOOLEAN :
        /\ At("link_helper")
        /\ Become(EnterLinkHelperOp(Cur, ok))
        /\ Goto("link_child")
        /\ UNCHANGED <<group, snap, loaderVars, placed>>

EnterLinkChild ==
    \E ok \in BOOLEAN :
        /\ At("link_child")
        /\ Become(EnterLinkChildOp(Cur, ok))
        /\ Goto("evaluate")
        /\ UNCHANGED <<group, snap, loaderVars, placed>>

EnterEvaluate ==
    \E ok \in BOOLEAN :
        /\ At("evaluate")
        /\ Become(EnterEvaluateOp(Cur, ok))
        /\ Goto("body")
        /\ UNCHANGED <<group, snap, loaderVars, placed>>

\* A body whose exception leaves the block without running __exit__.
Body_NoExitOnRaise ==
    \E raises \in BOOLEAN :
        LET res == AnchorBody(data, ctx.coll, ctx.depsgraph, frame)
        IN  /\ At("body")
            /\ Become(BodyOp(Cur, frame))
            /\ frame' = IF raises
                        THEN [frame EXCEPT !.pc = "closed", !.raised = TRUE]
                        ELSE [frame EXCEPT !.pc = "unlink_child",
                                           !.offset = res.offset, !.reason = res.reason]
            /\ UNCHANGED <<group, snap, loaderVars, placed>>

\* The with-block: it returns (offset, reason) or raises; either way
\* __exit__ runs next.
Body ==
    \E raises \in BOOLEAN :
        LET res == AnchorBody(data, ctx.coll, ctx.depsgraph, frame)
        IN  /\ At("body")
            /\ Become(BodyOp(Cur, frame))
            /\ frame' = IF raises
                        THEN [frame EXCEPT !.pc = "unlink_child", !.raised = TRUE]
                        ELSE [frame EXCEPT !.pc = "unlink_child",
                                           !.offset = res.offset, !.reason = res.reason]
            /\ UNCHANGED <<group, snap, loaderVars, placed>>

\* An __exit__ whose first failure ends the cleanup.
ExitUnlinkChild_StopOnError ==
    \E ok \in BOOLEAN :
        /\ At("unlink_child")
        /\ Become(ExitUnlinkChildOp(Cur, ok))
        /\ Goto(IF ok \/ ~ctx.did_link_child THEN "unlink_helper" ELSE "closed")
        /\ UNCHANGED <<group, snap, loaderVars, placed>>

ExitUnlinkChild ==
    \E ok \in BOOLEAN :
        /\ At("unlink_child")
        /\ Become(ExitUnlinkChildOp(Cur, ok))
        /\ Goto("unlink_helper")
        /\ UNCHANGED <<group, snap, loaderVars, placed>>

ExitUnlinkHelper ==
    \E ok \in BOOLEAN :
        /\ At("unlink_helper")
        /\ Become(ExitUnlinkHelperOp(Cur, ok))
        /\ Goto("remove")
        /\ UNCHANGED <<group, snap, loaderVars, placed>>

ExitRemove ==
    \E ok \in RemoveOutcomes(data) :
        /\ At("remove")
        /\ Become(ExitRemoveOp(Cur, ok))
        /\ Goto("closed")
        /\ UNCHANGED <<group, snap, loaderVars, placed>>

\* choose_anchor_offset returns (offset, reason) to its caller.
Return ==
    /\ At("closed")
    /\ ~frame.raised
    /\ frame' = IdleFrame
    /\ ctx' = NoCtx
    /\ log' = <<>>
    /\ snap' = NoSnap
    /\ UNCHANGED <<data, group, loaderVars, placed>>

\* The body's exception leaves choose_anchor_offset; nothing in build_scene
\* catches it.
Propagate ==
    /\ At("closed")
    /\ frame.raised
    /\ Goto("crashed")
    /\ UNCHANGED <<data, group, ctx, log, snap, loaderVars, placed>>

LoaderUnused ==
    /\ lib = <<>>
    /\ cache = <<>>
    /\ call = <<>>

BridgeInit ==
    /\ group \in GroupTemplates
    /\ data = BaseData(group)
    /\ ctx = NoCtx
    /\ frame = IdleFrame
    /\ log = <<>>
    /\ snap = NoSnap
    /\ placed = <<>>
    /\ LoaderUnused

BridgeNext ==
    \/ Begin
    \/ EnterNew
    \/ EnterLinkHelper
    \/ EnterLinkChild
    \/ EnterEvaluate
    \/ Body
    \/ ExitUnlinkChild
    \/ ExitUnlinkHelper
    \/ ExitRemove
    \/ Return
    \/ Propagate

SpecBridge == BridgeInit /\ [][BridgeNext]_vars

---------------------------------------------------------------------------
(* The instancer chain                                                     *)

PIV_PREFIX == <<"P", "I", "V", "_">>
ROT_PREFIX == <<"R", "O", "T", "_">>
OFF_PREFIX == <<"O", "F", "F", "_">>
INST_PREFIX == <<"I", "N", "S", "T", "_">>

\* f"{side}_{kind}" slot names of build_scene.
SlotNames == {<<"l", "e", "f", "t", "_", "e", "l", "e", "c", "t", "r", "i", "c", "a", "l">>, <<"r", "i", "g", "h", "t", "_", "m", "e", "c", "h", "a", "n", "i", "c", "a", "l">>}

\* A `scale` argument: a number, or a sequence of numbers (all in halves).
NumberScale(v) == [kind |-> "number", value |-> v]

SequenceScale(v) == [kind |-> "sequence", value |-> v]

\* math.radians on multiples of 90 degrees; angles are kept in quarter turns.
Radians(deg) == deg \div 90

\* rot_eul = Euler((radians(x), radians(y), radians(z)), "XYZ")
RotEul(rotation_deg) ==
    <<Radians(rotation_deg[1]), Radians(rotation_deg[2]), Radians(rotation_deg[3])>>

\* _as_scale_vec
AsScaleVec(scale) ==
    IF scale.kind = "number" THEN <<scale.value, scale.value, scale.value>>
    ELSE IF Len(scale.value) # 3 THEN UnitScale
    ELSE <<scale.value[1], scale.value[2], scale.value[3]>>

\* move_object_to_collection: out of every collection, into col.
MoveObjectToCollection(d, obj, col) ==
    [d EXCEPT !.objects_in =
        Table([c \in DOMAIN @ |-> IF c = col THEN @[c] \cup {obj} ELSE @[c] \ {obj}])]

\* bpy.data.objects.new(name, None)
NewObject(d, name) ==
    [d EXCEPT !.objects = (name :> ObjRec("EMPTY", NoneName, Zero3, <<>>)) @@ @]

\* An ensure that leaves its object alone in the target collection.
EnsureEmptyObj_AloneInTarget(d, name, target_collection) ==
    [MoveObjectToCollection(IF name \in DOMAIN d.objects THEN d ELSE NewObject(d, name),
                            name, target_collection)
        EXCEPT !.objects[name].empty_display_type = "PLAIN_AXES",
               !.objects_in[target_collection] = {name}]

\* An ensure that makes a new datablock on every call.
EnsureEmptyObj_AlwaysNew(d, name, target_collection) ==
    LET obj == NewName(name, DOMAIN d.objects)
    IN  [MoveObjectToCollection(NewObject(d, obj), obj, target_collection)
            EXCEPT !.objects[obj].empty_display_type = "PLAIN_AXES"]

\* ensure_empty_obj: the datablock called `name`, made if there is none; it
\* is the object the function returns.
EnsureEmptyObj(d, name, target_collection) ==
    [MoveObjectToCollection(IF name \in DOMAIN d.objects THEN d ELSE NewObject(d, name),
                            name, target_collection)
        EXCEPT !.objects[name].empty_display_type = "PLAIN_AXES"]

\* ensure_instance_empty
EnsureInstanceEmpty(d, name, collection, target_collection) ==
    [EnsureEmptyObj(d, name, target_collection)
        EXCEPT !.objects[name].instance_type = "COLLECTION",
               !.objects[name].instance_collection = collection]

\* parent_keep_local
ParentKeepLocal(d, child, parent) ==
    [d EXCEPT !.objects[child].parent = parent,
              !.objects[child].matrix_parent_inverse = "identity"]

SetLocal(d, obj, location, rotation_euler, scale) ==
    [d EXCEPT !.objects[obj].location = location,
              !.objects[obj].rotation_euler = rotation_euler,
              !.objects[obj].scale = scale]

\* Local transforms with rotation and scale put on the placement node.
SetTransforms_RotOnPiv(d, piv, rot, off, inst, loc, rot_eul, svec, anchor_offset) ==
    LET d1 == SetLocal(d, piv, loc, rot_eul, svec)
        d2 == SetLocal(d1, rot, Zero3, Zero3, UnitScale)
        d3 == SetLocal(d2, off, VNeg(anchor_offset), Zero3, UnitScale)
    IN  SetLocal(d3, inst, Zero3, Zero3, UnitScale)

\* instance_collection_pivoted: "Local transforms".
SetTransforms(d, piv, rot, off, inst, loc, rot_eul, svec, anchor_offset) ==
    LET d1 == SetLocal(d, piv, loc, Zero3, UnitScale)
        d2 == SetLocal(d1, rot, Zero3, rot_eul, svec)
        d3 == SetLocal(d2, off, VNeg(anchor_offset), Zero3, UnitScale)
    IN  SetLocal(d3, inst, Zero3, Zero3, UnitScale)

\* instance_collection_pivoted after choose_anchor_offset: ensure the four
\* nodes, chain them, set their local transforms.
PlaceChain(d, args, anchor_offset) ==
    LET tc == args.target_collection
        piv == PIV_PREFIX \o args.slot_name
        rot == ROT_PREFIX \o args.slot_name
        off == OFF_PREFIX \o args.slot_name
        inst == INST_PREFIX \o args.slot_name
        ensured ==
            EnsureInstanceEmpty(
                EnsureEmptyObj(EnsureEmptyObj(EnsureEmptyObj(d, piv, tc), rot, tc), off, tc),
                inst, args.collection, tc)
        chained ==
            ParentKeepLocal(
                ParentKeepLocal(
                    ParentKeepLocal(
                        ParentKeepLocal(ensured, piv, args.parent_obj),
                        rot, piv),
                    off, rot),
                inst, off)
    IN  SetTransforms(chained, piv, rot, off, inst,
                      args.location_mm, RotEul(args.rotation_deg),
                      AsScaleVec(args.scale), anchor_offset)

\* The bpy calls of an evaluation context that raise during one placement.
FaultSets ==
    {{}, {"link_child"}, {"evaluate"}, {"body"}, {"unlink_child", "remove"},
     {"link_helper", "unlink_helper"}}

\* E(v), with v computed once.
With(v, E(_)) == CHOOSE r \in {E(x) : x \in {v}} : TRUE

\* __enter__ and __exit__ as the sequences of their bpy calls.
EnterSequence == <<"new", "link_helper", "link_child", "evaluate">>

ExitSequence == <<"unlink_child", "unlink_helper", "remove">>

ContextStep(st, op, ok) ==
    CASE op = "new" -> EnterNewOp(st)
      [] op = "link_helper" -> EnterLinkHelperOp(st, ok)
      [] op = "link_child" -> EnterLinkChildOp(st, ok)
      [] op = "evaluate" -> EnterEvaluateOp(st, ok)
      [] op = "unlink_child" -> ExitUnlinkChildOp(st, ok)
      [] op = "unlink_helper" -> ExitUnlinkHelperOp(st, ok)
      [] op = "remove" -> ExitRemoveOp(st, ok)

\* The steps of `steps` one after the other, those in `faults` raising.
RECURSIVE RunContext(_, _, _)
RunContext(st, steps, faults) ==
    IF steps = <<>> THEN st
    ELSE With(ContextStep(st, Head(steps), Head(steps) \notin faults),
              LAMBDA next : RunContext(next, Tail(steps), faults))

\* The with-block of choose_anchor_offset, once __enter__ has returned.
EvaluateAndLeave(entered, coll, f, faults) ==
    LET res == AnchorBody(entered.data, coll, entered.ctx.depsgraph, f)
    IN  [data |-> RunContext(BodyOp(entered, f), ExitSequence, faults).data,
         raised |-> "body" \in faults,
         offset |-> res.offset, reason |-> res.reason]

\* choose_anchor_offset as one step: the steps of SpecBridge in sequence.
ChooseAnchorOffset(d, coll, spec, faults) ==
    With(PrePick(d, spec.pivot_mode, spec.anchor_object),
         LAMBDA f :
            With(RunContext([data |-> d, ctx |-> TempCollectionLink(coll), log |-> <<>>],
                            EnterSequence, faults),
                 LAMBDA entered : EvaluateAndLeave(entered, coll, f, faults)))

\* instance_collection_pivoted
InstanceCollectionPivoted(d, args, faults) ==
    With(ChooseAnchorOffset(d, args.collection, args.spec, faults),
         LAMBDA a :
            IF a.raised
            THEN [data |-> a.data, raised |-> TRUE, offset |-> Zero3]
            ELSE [data |-> PlaceChain(a.data, args, a.offset), raised |-> FALSE,
                  offset |-> a.offset])

\* build_component's call for one slot.
PlacementArgs(slot_name, location_mm, rotation_deg, scale, spec) ==
    [slot_name |-> slot_name, collection |-> group.root,
     location_mm |-> location_mm, rotation_deg |-> rotation_deg, scale |-> scale,
     parent_obj |-> RIG_ROOT_OBJ, target_collection |-> COMPONENTS, spec |-> spec]

\* One call of instance_collection_pivoted; an exception of the body ends
\* the build.
Call(args, faults, done) ==
    \E r \in {InstanceCollectionPivoted(data, args, faults)} :
        /\ "remove" \in faults => Cardinality(Helpers(data)) < MaxLeaked
        /\ data' = r.data
        /\ frame' = [frame EXCEPT !.pc = IF r.raised THEN "crashed" ELSE done]
        /\ placed' = IF r.raised THEN placed
                     ELSE [placed EXCEPT ![args.slot_name] =
                              [args |-> args, anchor_offset |-> r.offset,
                               rebuilt |-> placed[args.slot_name] # <<>>]]
        /\ UNCHANGED <<group, ctx, log, snap, lib, cache, call>>

NeverPlaced == [s \in SlotNames |-> <<>>]

\* The components of SpecPlace: location_mm, rotation_deg, scale and the
\* pivot settings of a merged component spec.
Components ==
    {[location_mm |-> <<100, 0, 0>>, rotation_deg |-> <<0, 0, 0>>, scale |-> NumberScale(2),
      spec |-> [pivot_mode |-> "OBJECT", anchor_object |-> N_ANCHOR_PT]],
     [location_mm |-> <<0, 50, 20>>, rotation_deg |-> <<0, 0, 90>>, scale |-> NumberScale(4),
      spec |-> [pivot_mode |-> "AUTO", anchor_object |-> NoneName]],
     [location_mm |-> <<100, 0, 0>>, rotation_deg |-> <<90, 0, 180>>,
      scale |-> SequenceScale(<<2, 4, 6>>),
      spec |-> [pivot_mode |-> "BBOX_MIN", anchor_object |-> NoneName]]}

\* The pivot settings of the placements of SpecCompose.
PivotSpecs == {c.spec : c \in Components}

Place ==
    \E slot_name \in SlotNames, c \in Components, faults \in FaultSets :
        /\ At("idle")
        /\ Call(PlacementArgs(slot_name, c.location_mm, c.rotation_deg, c.scale, c.spec),
                faults, "idle")

PlaceInit ==
    /\ group \in GroupTemplates
    /\ data = BaseData(group)
    /\ ctx = NoCtx
    /\ frame = IdleFrame
    /\ log = <<>>
    /\ snap = NoSnap
    /\ placed = NeverPlaced
    /\ LoaderUnused

PlaceNext == Place

SpecPlace == PlaceInit /\ [][PlaceNext]_vars

---------------------------------------------------------------------------
(* One placement, over the rotations and scales                            *)

Degrees == {0, 90, 180, 270}

\* 0.5, 1, 2, (1,2,3), and a sequence that is not a triple.
ScaleInputs ==
    {NumberScale(1), NumberScale(2), NumberScale(4), SequenceScale(<<2, 4, 6>>),
     SequenceScale(<<4, 4>>)}

Locations == {<<100, 0, 0>>, <<0, 50, 20>>}

ComposeSlot == CHOOSE s \in SlotNames : s[1] = "l"

ComposeInit ==
    /\ group \in GroupTemplates
    /\ data = BaseData(group)
    /\ ctx = NoCtx
    /\ \E slot_name \in {ComposeSlot}, location_mm \in Locations,
          rx \in Degrees, ry \in Degrees, rz \in Degrees,
          scale \in ScaleInputs, spec \in PivotSpecs :
            frame = [IdleFrame EXCEPT !.args =
                        PlacementArgs(slot_name, location_mm, <<rx, ry, rz>>, scale, spec)]
    /\ log = <<>>
    /\ snap = NoSnap
    /\ placed = NeverPlaced
    /\ LoaderUnused

PlaceOnce ==
    \E faults \in FaultSets :
        /\ At("idle")
        /\ Call(frame.args, faults, "placed")

ComposeNext == PlaceOnce

SpecCompose == ComposeInit /\ [][ComposeNext]_vars

\* Quarter turns about the axes.
RotX(v) == <<v[1], -v[3], v[2]>>

RotY(v) == <<v[3], v[2], -v[1]>>

RotZ(v) == <<-v[2], v[1], v[3]>>

RECURSIVE Turn(_, _, _)
Turn(axis, q, v) ==
    IF q % 4 = 0 THEN v
    ELSE Turn(axis, (q % 4) - 1,
              CASE axis = "X" -> RotX(v) [] axis = "Y" -> RotY(v) [] OTHER -> RotZ(v))

\* Euler(..., "XYZ").to_matrix() @ v: about X first, then Y, then Z.
EulerXYZ(e, v) == Turn("Z", e[3], Turn("Y", e[2], Turn("X", e[1], v)))

VMul(a, b) == <<a[1] * b[1], a[2] * b[2], a[3] * b[3]>>

VScale(k, a) == <<k * a[1], k * a[2], k * a[3]>>

\* A point num/den of the local space of node o, in the space of o's parent:
\* location + R(rotation_euler) S(scale) p, the scale being in halves.
LocalToParent(o, p) ==
    [num |-> VAdd(VScale(2 * p.den, o.location),
                  EulerXYZ(o.rotation_euler, VMul(o.scale, p.num))),
     den |-> 2 * p.den]

\* The world position of a point of the local space of node obj.
RECURSIVE ToWorld(_, _, _, _)
ToWorld(d, obj, p, n) ==
    LET q == LocalToParent(d.objects[obj], p)
    IN  IF n = 0 \/ d.objects[obj].parent = NoneName THEN q
        ELSE ToWorld(d, d.objects[obj].parent, q, n - 1)

---------------------------------------------------------------------------
(* build_scene: the component loop, the camera sweep and the save          *)

\* f"{side}_{kind}" in the order of the two nested loops.
BuildSlots ==
    <<<<"l", "e", "f", "t", "_", "e", "l", "e", "c", "t", "r", "i", "c", "a", "l">>, <<"l", "e", "f", "t", "_", "m", "e", "c", "h", "a", "n", "i", "c", "a", "l">>, <<"r", "i", "g", "h", "t", "_", "e", "l", "e", "c", "t", "r", "i", "c", "a", "l">>, <<"r", "i", "g", "h", "t", "_", "m", "e", "c", "h", "a", "n", "i", "c", "a", "l">>>>

BuildSlotSet == {BuildSlots[i] : i \in 1..Len(BuildSlots)}

\* Paths of a library file that is missing and of one whose groups raise
\* when they are loaded.
P_MISSING == <<"assets", "gone.blend">>
P_RAISING == <<"assets", "corrupt.blend">>

\* A blend_collection without the EXPORT_ prefix.
N_A == <<"A">>

\* The library files of a build, by resolved path; the one that can be
\* loaded holds the group t.
BuildLibraries(t) ==
    (BLEND_PATH :> [exists |-> TRUE, listable |-> TRUE,
                    groups |-> <<[name |-> t.root, status |-> "nonempty"]>>])
    @@ (P_MISSING :> [exists |-> FALSE, listable |-> FALSE, groups |-> <<>>])
    @@ (P_RAISING :> [exists |-> TRUE, listable |-> TRUE,
                      groups |-> <<[name |-> t.root, status |-> "raises"]>>])

\* One side_block[kind] of the manifest, merged with the defaults.
ComponentSpec(enabled, blend, blend_collection, c) ==
    [enabled |-> enabled, blend |-> blend, blend_collection |-> blend_collection,
     link |-> TRUE, location_mm |-> c.location_mm, rotation_deg |-> c.rotation_deg,
     scale |-> c.scale, pivot_mode |-> c.spec.pivot_mode,
     anchor_object |-> c.spec.anchor_object]

ExplicitComponent == CHOOSE c \in Components : c.spec.pivot_mode = "OBJECT"

AutoComponent == CHOOSE c \in Components : c.spec.pivot_mode = "AUTO"

\* A component whose anchor_object names a node that nothing has.
MissingAnchorComponent ==
    [location_mm |-> <<0, 50, 20>>, rotation_deg |-> <<0, 0, 0>>, scale |-> NumberScale(2),
     spec |-> [pivot_mode |-> "OBJECT", anchor_object |-> N_MISSING]]

\* The specs a slot may have in the manifest: none (<<>>), disabled, without
\* a blend path, with the path of a missing library (with and without a
\* collection name), with the path of a library whose group raises, and with
\* the path of the loadable library (by an anchor it has, by the AUTO
\* ladder, and by an anchor it does not have).
SlotSpecs ==
    {<<>>,
     ComponentSpec(FALSE, BLEND_PATH, N_A, ExplicitComponent),
     ComponentSpec(TRUE, <<>>, N_A, ExplicitComponent),
     ComponentSpec(TRUE, P_MISSING, N_A, ExplicitComponent),
     ComponentSpec(TRUE, P_MISSING, NoneName, ExplicitComponent),
     ComponentSpec(TRUE, P_RAISING, N_EXPORT_A, AutoComponent),
     ComponentSpec(TRUE, BLEND_PATH, N_A, ExplicitComponent),
     ComponentSpec(TRUE, <<"assets", ".", "parts", "..", "lib.blend">>, NoneName, AutoComponent),
     ComponentSpec(TRUE, BLEND_PATH, N_A, MissingAnchorComponent)}

\* No group: the datablocks of a build that has loaded nothing yet.
NoGroup ==
    [root |-> NoneName, collections |-> {}, children |-> <<>>, objects_in |-> <<>>,
     order |-> <<>>, objects |-> <<>>]

\* bpy.data.libraries.load with data_to.collections = [name], linked: the
\* datablocks of group t are in bpy.data afterwards, once.
LoadInto(d, t) ==
    [collections |-> d.collections \cup t.collections,
     children |-> d.children @@ t.children,
     objects_in |-> d.objects_in @@ t.objects_in,
     objects |-> d.objects @@ t.objects]

W_NO_BLEND == "missing blend path; skipping"
W_NO_NAME == "missing blend_collection; will fall back to first EXPORT_*"
W_SKIP == "could not load collection"

\* One line of warn(): the slot being built, who printed it, and the text.
Warning(slot, by, text) == [slot |-> slot, by |-> by, text |-> text]

LoaderWarnings(slot, warned) ==
    [i \in 1..Len(warned) |-> Warning(slot, "load_collection_from_blend", warned[i])]

\* fallback_names of build_component
FallbackNamesFor(coll_name) ==
    (IF coll_name # NoneName /\ coll_name # <<>> /\ ~StartsWith(coll_name, EXPORT_PREFIX)
     THEN <<EXPORT_PREFIX \o coll_name>> ELSE <<>>)
    \o <<DEFAULT_COLLECTION>>

\* The evaluation-context calls that raise during a placement of a build:
\* calls the context catches, and no failed removal.
BuildFaults == {f \in FaultSets : "body" \notin f /\ "remove" \notin f}

InLoop == At("components") /\ frame.i <= Len(BuildSlots)

CurSlot == BuildSlots[frame.i]

CurSpec == frame.manifest[CurSlot]

\* The loop goes on with the next slot.
NextSlot(outcome) ==
    /\ frame' = [frame EXCEPT !.i = @ + 1]
    /\ call' = [call EXCEPT ![CurSlot] = outcome]

\* A loop that a slot without a loaded group ends.
NextSlotAfterSkip_EndsLoop(outcome) ==
    /\ frame' = [frame EXCEPT !.i = Len(BuildSlots) + 1]
    /\ call' = [call EXCEPT ![CurSlot] = outcome]

\* build_component returned early: the loop goes on with the next slot.
NextSlotAfterSkip(outcome) == NextSlot(outcome)

\* if not spec: continue
SkipNoSpec ==
    /\ InLoop
    /\ CurSpec = <<>>
    /\ NextSlotAfterSkip("no_spec")
    /\ UNCHANGED <<data, group, ctx, log, snap, placed, lib, cache>>

\* build_component: if not merged.get("enabled", True): return
SkipDisabled ==
    /\ InLoop
    /\ CurSpec # <<>>
    /\ ~CurSpec.enabled
    /\ NextSlotAfterSkip("disabled")
    /\ UNCHANGED <<data, group, ctx, log, snap, placed, lib, cache>>

\* build_component: if not blend_rel: warn(...); return
SkipNoBlend ==
    /\ InLoop
    /\ CurSpec # <<>>
    /\ CurSpec.enabled
    /\ CurSpec.blend = <<>>
    /\ log' = Append(log, Warning(CurSlot, "build_component", W_NO_BLEND))
    /\ NextSlotAfterSkip("no_blend")
    /\ UNCHANGED <<data, group, ctx, snap, placed, lib, cache>>

HasBlend == CurSpec # <<>> /\ CurSpec.enabled /\ CurSpec.blend # <<>>

\* if coll_name is None: warn(...)
NameWarning ==
    IF CurSpec.blend_collection = NoneName
    THEN <<Warning(CurSlot, "build_component", W_NO_NAME)>> ELSE <<>>

\* build_component's call of load_collection_from_blend.
LoadForSlot ==
    LoadResult(lib[ResolvePath(CurSpec.blend)], cache, CurSpec.blend,
               CurSpec.blend_collection, FallbackNamesFor(CurSpec.blend_collection),
               CurSpec.link)

\* A build_component that places whatever the loader returned, None too.
SkipNotLoaded_PlacesNone ==
    /\ InLoop
    /\ HasBlend
    /\ \E r \in {LoadForSlot} :
        /\ r.ret = NoneName
        /\ log' = log \o NameWarning \o LoaderWarnings(CurSlot, r.warned)
        /\ cache' = r.cache
        /\ data' = PlaceChain(data, [slot_name |-> CurSlot, collection |-> NoneName,
                                     location_mm |-> CurSpec.location_mm,
                                     rotation_deg |-> CurSpec.rotation_deg,
                                     scale |-> CurSpec.scale, parent_obj |-> RIG_ROOT_OBJ,
                                     target_collection |-> COMPONENTS], Zero3)
        /\ NextSlotAfterSkip(r.outcome)
        /\ UNCHANGED <<group, ctx, snap, placed, lib>>

\* build_component: the loader returned None: warn(...); return
SkipNotLoaded ==
    /\ InLoop
    /\ HasBlend
    /\ \E r \in {LoadForSlot} :
        /\ r.ret = NoneName
        /\ log' = log \o NameWarning \o LoaderWarnings(CurSlot, r.warned)
                      \o <<Warning(CurSlot, "build_component", W_SKIP)>>
        /\ cache' = r.cache
        /\ NextSlotAfterSkip(r.outcome)
        /\ UNCHANGED <<data, group, ctx, snap, placed, lib>>

\* build_component: the loader returned a group, which is placed.
PlaceLoaded ==
    /\ InLoop
    /\ HasBlend
    /\ \E faults \in BuildFaults, r \in {LoadForSlot} :
        /\ r.ret # NoneName
        /\ \E args \in {[slot_name |-> CurSlot, collection |-> r.ret,
                         location_mm |-> CurSpec.location_mm,
                         rotation_deg |-> CurSpec.rotation_deg,
                         scale |-> CurSpec.scale, parent_obj |-> RIG_ROOT_OBJ,
                         target_collection |-> COMPONENTS,
                         spec |-> [pivot_mode |-> CurSpec.pivot_mode,
                                   anchor_object |-> CurSpec.anchor_object]]} :
              \E p \in {InstanceCollectionPivoted(LoadInto(data, group), args, faults)} :
                  /\ data' = p.data
                  /\ placed' = IF p.raised THEN placed
                               ELSE [placed EXCEPT ![CurSlot] =
                                        [args |-> args, anchor_offset |-> p.offset,
                                         rebuilt |-> FALSE]]
                  /\ IF p.raised
                     THEN frame' = [frame EXCEPT !.pc = "crashed"] /\ UNCHANGED call
                     ELSE NextSlot(r.outcome)
        /\ log' = log \o NameWarning \o LoaderWarnings(CurSlot, r.warned)
        /\ cache' = r.cache
        /\ UNCHANGED <<group, ctx, snap, lib>>

\* delete_scene_objects_of_type("CAMERA"): no object of the model is a camera.
DeleteCameras ==
    /\ At("components")
    /\ frame.i = Len(BuildSlots) + 1
    /\ frame' = [frame EXCEPT !.pc = "save"]
    /\ UNCHANGED <<data, group, ctx, log, snap, placed, lib, cache, call>>

\* bpy.ops.wm.save_as_mainfile: the collections and their links as written.
Save ==
    /\ At("save")
    /\ frame' = [frame EXCEPT !.pc = "saved"]
    /\ snap' = [collections |-> data.collections, children |-> data.children]
    /\ UNCHANGED <<data, group, ctx, log, placed, lib, cache, call>>

BuildInit ==
    /\ group = TemplateBox
    /\ data = BaseData(NoGroup)
    /\ ctx = NoCtx
    /\ \E manifest \in [BuildSlotSet -> SlotSpecs] :
          frame = [pc |-> "components", i |-> 1, manifest |-> manifest]
    /\ log = <<>>
    /\ snap = NoSnap
    /\ placed = [s \in BuildSlotSet |-> <<>>]
    /\ lib = BuildLibraries(group)
    /\ cache = <<>>
    /\ call = [s \in BuildSlotSet |-> "none"]

BuildNext ==
    \/ SkipNoSpec
    \/ SkipDisabled
    \/ SkipNoBlend
    \/ SkipNotLoaded
    \/ PlaceLoaded
    \/ DeleteCameras
    \/ Save

SpecBuild == BuildInit /\ [][BuildNext]_vars

---------------------------------------------------------------------------
(* choose_anchor_offset as one call, over groups that exercise the lookup  *)
(* by name, the scores of the markers and the bounding box                 *)

N_Foo == <<"F", "o", "o">>
N_Foo_001 == <<"F", "o", "o", ".", "0", "0", "1">>
N_Foo_002 == <<"F", "o", "o", ".", "0", "0", "2">>
N_foo == <<"f", "o", "o">>
N_FOO == <<"F", "O", "O">>
N_X_ROOT == <<"X", "_", "R", "O", "O", "T">>

\* A group whose objects all sit in its root collection, enumerated in
\* `order`.
FlatGroup(order, objects) ==
    [root |-> GroupRoot,
     collections |-> {GroupRoot},
     children |-> (GroupRoot :> {}),
     objects_in |-> (GroupRoot :> {order[i] : i \in 1..Len(order)}),
     order |-> order,
     objects |-> objects]

FooObjects ==
    N_Foo :> ObjRec("EMPTY", NoneName, <<1, 2, 3>>, <<>>)
    @@ N_Foo_001 :> ObjRec("EMPTY", NoneName, <<7, 8, 9>>, <<>>)
    @@ N_Box :> ObjRec("MESH", NoneName, <<2, 0, 0>>, <<Zero3, <<10, 10, 10>>>>)

\* Two markers Foo and Foo.001 of equal score and a box, Foo enumerated
\* first ...
TemplateFooFirst == FlatGroup(<<N_Foo, N_Foo_001, N_Box>>, FooObjects)

\* ... and Foo enumerated last.
TemplateFooLast == FlatGroup(<<N_Box, N_Foo_001, N_Foo>>, FooObjects)

\* Markers only, no geometry: a lower-case foo before a numbered Foo.001.
TemplateLower ==
    FlatGroup(<<N_foo, N_Foo_001>>,
              N_foo :> ObjRec("EMPTY", NoneName, <<4, 4, 4>>, <<>>)
              @@ N_Foo_001 :> ObjRec("EMPTY", NoneName, <<7, 8, 9>>, <<>>))

\* Geometry only, no marker.
TemplateMeshOnly ==
    FlatGroup(<<N_Box>>,
              N_Box :> ObjRec("MESH", NoneName, <<2, 0, 0>>, <<Zero3, <<10, 10, 10>>>>))

\* A marker X_ROOT that scores 95, after a marker that scores 5, and a box.
TemplateXRoot ==
    FlatGroup(<<N_Foo, N_X_ROOT, N_Box>>,
              N_Foo :> ObjRec("EMPTY", NoneName, <<1, 2, 3>>, <<>>)
              @@ N_X_ROOT :> ObjRec("EMPTY", NoneName, <<6, 0, 2>>, <<>>)
              @@ N_Box :> ObjRec("MESH", N_X_ROOT, <<2, 0, 0>>, <<Zero3, <<4, 4, 4>>>>))

AnchorTemplates ==
    {TemplateBox, TemplateRig, TemplateFooFirst, TemplateFooLast, TemplateLower,
     TemplateMeshOnly, TemplateXRoot}

\* spec["pivot_mode"] values, with both aliases.
AnchorModes == PivotModes \cup {"MIN"}

\* spec["anchor_object"] values: none, names of the groups in several
\* spellings, a name nothing has, and the name of the scene's rig root.
AnchorRequests == {NoneName, N_Foo, N_Foo_002, N_FOO, N_ANCHOR_PT, N_MISSING, RIG_ROOT_OBJ}

\* The bpy calls of the evaluation context that raise during one call; each
\* is caught by __enter__ or __exit__.
AnchorFaults == {f \in FaultSets : "body" \notin f}

\* One call of choose_anchor_offset, from its first line to its return: the
\* frame keeps the candidates, the offset and the reason, ctx the fields of
\* the evaluation context as the body found them.
Resolve ==
    \E pivot_mode \in AnchorModes, anchor_name \in AnchorRequests, faults \in AnchorFaults :
        /\ At("idle")
        /\ "remove" \in faults => Cardinality(Helpers(data)) < MaxLeaked
        /\ \E spec \in {[pivot_mode |-> pivot_mode, anchor_object |-> anchor_name]} :
           \E r \in {ChooseAnchorOffset(data, group.root, spec, faults)},
              entered \in {RunContext([data |-> data, ctx |-> TempCollectionLink(group.root),
                                       log |-> <<>>], EnterSequence, faults)} :
               /\ data' = r.data
               /\ ctx' = entered.ctx
               /\ frame' = [PrePick(data, pivot_mode, anchor_name) EXCEPT
                               !.pc = "resolved", !.args = spec, !.offset = r.offset,
                               !.reason = r.reason, !.raised = r.raised]
               /\ snap' = [collections |-> data.collections, children |-> data.children]
        /\ UNCHANGED <<group, log, placed, loaderVars>>

\* instance_collection_pivoted has the offset and the reason; the frame of
\* the call is gone.
AnchorReturn ==
    /\ At("resolved")
    /\ frame' = IdleFrame
    /\ ctx' = NoCtx
    /\ UNCHANGED <<data, group, log, snap, placed, loaderVars>>

AnchorInit ==
    /\ group \in AnchorTemplates
    /\ data = BaseData(group)
    /\ ctx = NoCtx
    /\ frame = IdleFrame
    /\ log = <<>>
    /\ snap = NoSnap
    /\ placed = <<>>
    /\ LoaderUnused

AnchorNext ==
    \/ Resolve
    \/ AnchorReturn

SpecAnchor == AnchorInit /\ [][AnchorNext]_vars

---------------------------------------------------------------------------
(* Properties of the loader, checked under SpecLoader                      *)

\* The last call searched the library (no early return, no cache hit).
Searched == call.outcome \in {"loaded", "none_loadable"}

\* The rung of the selection ladder a name stands on, from the call's
\* arguments and the library alone.
LadderRank(n) ==
    IF call.requested # NoneName /\ call.requested # <<>> /\ n = call.requested THEN 1
    ELSE IF n # <<>> /\ InSeq(n, call.fallbacks) THEN 2
    ELSE IF InSeq(n, Available(lib)) /\ StartsWith(n, EXPORT_PREFIX) THEN 3
    ELSE IF InSeq(n, Available(lib)) /\ n = DEFAULT_COLLECTION THEN 4
    ELSE IF InSeq(n, Available(lib)) THEN 5
    ELSE 6

LadderBefore(a, b) ==
    \/ LadderRank(a) < LadderRank(b)
    \/ /\ LadderRank(a) = LadderRank(b)
       /\ CASE LadderRank(a) = 2 ->
                   FirstIndex(a, call.fallbacks) < FirstIndex(b, call.fallbacks)
            [] LadderRank(a) = 3 -> StrLess(a, b)
            [] LadderRank(a) = 5 ->
                   FirstIndex(a, Available(lib)) < FirstIndex(b, Available(lib))
            [] OTHER -> FALSE

LadderNames ==
    {n \in {call.requested} : n # NoneName /\ n # <<>>}
    \cup {call.fallbacks[i] : i \in {j \in 1..Len(call.fallbacks) : call.fallbacks[j] # <<>>}}
    \cup {Available(lib)[i] : i \in 1..Len(Available(lib))}

NonEmptyIdx ==
    {i \in 1..Len(call.candidates) : LoadStatus(lib, call.candidates[i]) = "nonempty"}

LoadableIdx == {i \in 1..Len(call.candidates) : Loadable(lib, call.candidates[i])}

\* C8: the candidates are tried in the order requested name, fallback names
\* in the given order, EXPORT_ groups in sorted order, 'Collection', the
\* remaining groups in enumeration order; and a loadable non-empty group is
\* never passed over for one that stands later in that order.
C8_LadderOrder ==
    Searched =>
        LET cands == call.candidates IN
        /\ {cands[i] : i \in 1..Len(cands)} = LadderNames
        /\ \A i, j \in 1..Len(cands) :
               (i < j /\ i = FirstIndex(cands[i], cands) /\ j = FirstIndex(cands[j], cands))
                   => LadderBefore(cands[i], cands[j])
        /\ Len(call.tried) <= Len(cands)
        /\ call.tried = SubSeq(cands, 1, Len(call.tried))
        /\ \A n \in LadderNames :
               LoadStatus(lib, n) = "nonempty" =>
                   /\ call.ret # NoneName
                   /\ LoadStatus(lib, call.ret) = "nonempty"
                   /\ call.ret = n \/ LadderBefore(call.ret, n)

\* C8 witness: two non-empty groups, and the one the library enumerates later
\* is returned because it stands earlier on the ladder.
C8_Witness ==
    /\ call.outcome = "loaded"
    /\ \E i, j \in 1..Len(Available(lib)) :
           /\ i < j
           /\ lib.groups[i].status = "nonempty"
           /\ lib.groups[j].status = "nonempty"
           /\ call.ret = lib.groups[j].name
           /\ LadderRank(call.ret) >= 3

\* C9: when every loadable candidate is empty, the first loadable candidate
\* of the selection order is returned.
C9_AllEmptyReturnsFirst ==
    (Searched /\ LoadableIdx # {} /\ NonEmptyIdx = {})
        => call.ret = call.candidates[MinOf(LoadableIdx)]

\* C10: when some loadable candidate is non-empty, the first non-empty
\* candidate of the selection order is returned.
C10_FirstNonEmpty ==
    (Searched /\ NonEmptyIdx # {}) => call.ret = call.candidates[MinOf(NonEmptyIdx)]

\* C10 witness: the requested group itself is loadable and empty, and a later
\* non-empty candidate is returned.
C10_Witness ==
    /\ call.outcome = "loaded"
    /\ NonEmptyIdx # {}
    /\ call.candidates[1] = call.requested
    /\ LoadStatus(lib, call.requested) = "empty"
    /\ MinOf(NonEmptyIdx) > 1
    /\ call.ret = call.candidates[MinOf(NonEmptyIdx)]

\* The cache key of the last call.
KeyOf(c) == BlendCollectionKey(BLEND_PATH, c.requested, c.link)

EarlyOutcome ==
    IF ~lib.exists THEN "file_missing"
    ELSE IF ~lib.listable THEN "list_failed"
    ELSE IF lib.groups = <<>> THEN "no_groups"
    ELSE "none"

RaisedIdx == {i \in 1..Len(call.tried) : LoadStatus(lib, call.tried[i]) = "raises"}

---------------------------------------------------------------------------
(* Properties of the evaluation context                                    *)

Closed == At("closed")

OpsOf(l) == [i \in 1..Len(l) |-> l[i].op]

ExitSteps == {"unlink_child", "unlink_helper", "remove"}

ExitOps == SelectSeq(OpsOf(log), LAMBDA op : op \in ExitSteps)

Failed(op) == \E i \in 1..Len(log) : log[i].op = op /\ ~log[i].ok

Attempted(op) == \E i \in 1..Len(log) : log[i].op = op

HelperGone ==
    /\ ctx.helper \notin data.collections
    /\ ctx.helper \notin DOMAIN data.children
    /\ \A c \in DOMAIN data.children : ctx.helper \notin data.children[c]

Restored ==
    /\ data.collections = snap.collections
    /\ data.children = snap.children

ExpectedExitOps ==
    (IF ctx.did_link_child THEN <<"unlink_child">> ELSE <<>>)
    \o (IF ctx.did_link_helper THEN <<"unlink_helper">> ELSE <<>>)
    \o <<"remove">>

\* C2: __exit__ attempts its steps in the order unlink the group from the
\* helper, unlink the helper from the scene, remove the helper - each unlink
\* exactly when its link had been made - and every step is attempted whether
\* or not the steps before it failed.
C2_ExitOrder ==
    Closed =>
        /\ ExitOps = ExpectedExitOps
        /\ SubSeq(OpsOf(log), Len(log) - Len(ExitOps) + 1, Len(log)) = ExitOps

C2_Witness ==
    /\ Closed
    /\ ExitOps = <<"unlink_child", "unlink_helper", "remove">>
    /\ Failed("unlink_child")
    /\ Failed("unlink_helper")

Rank(op) ==
    CASE op = "new" -> 0
      [] op = "link_helper" -> 1
      [] op = "link_child" -> 2
      [] op = "evaluate" -> 3
      [] op = "read" -> 4
      [] op = "unlink_child" -> 5
      [] op = "unlink_helper" -> 6
      [] op = "remove" -> 7

InOrder == \A i, j \in 1..Len(log) : i < j => Rank(log[i].op) <= Rank(log[j].op)

Reads == {i \in 1..Len(log) : log[i].op = "read"}

DetachedAtClose ==
    Closed =>
        /\ ctx.did_link_child => Attempted("unlink_child")
        /\ ctx.did_link_helper => Attempted("unlink_helper")
        /\ Attempted("remove")

---------------------------------------------------------------------------
(* Properties of the instancer chain                                       *)

ChainNames(slot_name) ==
    {PIV_PREFIX \o slot_name, ROT_PREFIX \o slot_name, OFF_PREFIX \o slot_name,
     INST_PREFIX \o slot_name}

PlacedSlots == {s \in SlotNames : placed[s] # <<>>}

IdentityRotScale(o) == o.rotation_euler = Zero3 /\ o.scale = UnitScale

\* The scale the ROT node must carry for a `scale` argument.
ScaleAsGiven(o, scale) ==
    IF scale.kind = "number"
    THEN \A i \in 1..3 : o.scale[i] = scale.value
    ELSE Len(scale.value) = 3 /\ \A i \in 1..3 : o.scale[i] = scale.value[i]

\* The chain of slot s as its last completed call must have left it.
ChainAsPlaced(s) ==
    LET a == placed[s].args
        piv == PIV_PREFIX \o s
        rot == ROT_PREFIX \o s
        off == OFF_PREFIX \o s
        inst == INST_PREFIX \o s
        o == data.objects
    IN  /\ ChainNames(s) \subseteq DOMAIN o
        /\ o[piv].parent = a.parent_obj
        /\ o[rot].parent = piv
        /\ o[off].parent = rot
        /\ o[inst].parent = off
        /\ \A n \in ChainNames(s) : o[n].matrix_parent_inverse = "identity"
        /\ o[piv].location = a.location_mm
        /\ IdentityRotScale(o[piv])
        /\ o[rot].location = Zero3
        /\ \A i \in 1..3 : 90 * o[rot].rotation_euler[i] = a.rotation_deg[i]
        /\ ScaleAsGiven(o[rot], a.scale)
        /\ VAdd(o[off].location, placed[s].anchor_offset) = Zero3
        /\ IdentityRotScale(o[off])
        /\ o[inst].location = Zero3
        /\ IdentityRotScale(o[inst])
        /\ o[inst].instance_type = "COLLECTION"
        /\ o[inst].instance_collection = a.collection

\* C4: through the chain instance_collection_pivoted builds, the point
\* anchor_offset of the group's space lands exactly on location_mm, for
\* every combination of quarter-turn rotations about the three axes and
\* every scale among 0.5, 1, 2 and (1,2,3).
C4_AnchorAtTarget ==
    At("placed") =>
        LET s == frame.args.slot_name
            w == ToWorld(data, INST_PREFIX \o s,
                         [num |-> placed[s].anchor_offset, den |-> 1],
                         Cardinality(DOMAIN data.objects))
        IN  w.num = VScale(w.den, frame.args.location_mm)

C4_Witness ==
    /\ At("placed")
    /\ frame.args.rotation_deg = <<90, 180, 270>>
    /\ frame.args.scale = NumberScale(2)
    /\ placed[frame.args.slot_name].anchor_offset = <<5, 5, 10>>
    /\ data.objects[ROT_PREFIX \o frame.args.slot_name].rotation_euler = <<1, 2, 3>>

\* C5: after instance_collection_pivoted has returned for a slot, its four
\* nodes form the chain parent_obj -> PIV -> ROT -> OFF -> INST with no
\* parent-inverse; PIV carries the target location only, ROT the rotation
\* and the scale only, OFF minus the anchor offset only, and INST nothing
\* but the reference to the group.
C5_ChainShape == \A s \in PlacedSlots : ChainAsPlaced(s)

C5_Witness ==
    \E s \in PlacedSlots :
        /\ placed[s].args.rotation_deg = <<90, 0, 180>>
        /\ data.objects[ROT_PREFIX \o s].scale = <<2, 4, 6>>
        /\ data.objects[OFF_PREFIX \o s].location = <<-3, -1, 0>>
        /\ data.objects[PIV_PREFIX \o s].parent = RIG_ROOT_OBJ

\* The nodes of the data that carry a chain name of slot s, counting the
\* numbered duplicates of those names.
ChainObjects(s) == {o \in DOMAIN data.objects : BaseName(o) \in ChainNames(s)}

\* C6: whatever calls were made for a slot, the data holds exactly its four
\* nodes under their derived names (none for a slot never placed, never a
\* numbered duplicate), each in the target collection only, and they carry
\* the location and the compensation of the slot's last call.
C6_OneChainPerSlot ==
    \A s \in SlotNames :
        IF placed[s] = <<>> THEN ChainObjects(s) = {}
        ELSE /\ ChainObjects(s) = ChainNames(s)
             /\ \A o \in ChainNames(s) :
                    UsersCollection(data, o) = {placed[s].args.target_collection}
             /\ data.objects[PIV_PREFIX \o s].location = placed[s].args.location_mm
             /\ data.objects[OFF_PREFIX \o s].location = VNeg(placed[s].anchor_offset)

C6_Witness ==
    \E s \in PlacedSlots :
        /\ placed[s].rebuilt
        /\ Cardinality(ChainObjects(s)) = 4
        /\ Cardinality(DOMAIN data.objects) =
              1 + Cardinality(DOMAIN group.objects) + 4 * Cardinality(PlacedSlots)

LocalFields(o) ==
    [type |-> o.type, parent |-> o.parent, location |-> o.location,
     rotation_euler |-> o.rotation_euler, scale |-> o.scale, bound_box |-> o.bound_box]

\* C7: whatever placements were made, the group is as it was loaded: the
\* same nodes under the same names in the same collections of the group,
\* with their parents and local transforms, and the same child collections.
C7_GroupUnchanged ==
    /\ \A o \in DOMAIN group.objects :
          /\ o \in DOMAIN data.objects
          /\ LocalFields(data.objects[o]) = LocalFields(group.objects[o])
          /\ UsersCollection(data, o) = {c \in group.collections : o \in group.objects_in[c]}
    /\ \A c \in group.collections :
          /\ c \in data.collections
          /\ data.children[c] = group.children[c]
          /\ data.objects_in[c] = group.objects_in[c]
    /\ AllObjects(data, group.root) = group.order

C7_Witness ==
    /\ PlacedSlots # {}
    /\ group = TemplateRig
    /\ data.objects[N_Box].matrix_world = <<3, 1, 0>>
    /\ ~InScene(data, group.root)
    /\ Helpers(data) = {}

---------------------------------------------------------------------------
(* Properties of the component loop, checked under SpecBuild               *)

\* The nodes of d that carry a chain name of slot s or a numbered duplicate.
NodesOf(d, s) == {o \in DOMAIN d.objects : BaseName(o) \in ChainNames(s)}

\* The slot being built names a library file that does not exist.
MissingSlot == InLoop /\ HasBlend /\ ~lib[ResolvePath(CurSpec.blend)].exists

\* build_component for a slot of a missing file did nothing to the data.
NoOpForSlot ==
    /\ data' = data
    /\ NodesOf(data', CurSlot) = {}
    /\ Helpers(data') = {}
    /\ placed' = placed
    /\ cache' = cache
    /\ call' = [call EXCEPT ![CurSlot] = "file_missing"]
    /\ frame' = [frame EXCEPT !.i = @ + 1]

\* C14 as stated: building a slot whose library path does not exist returns
\* from the loader with None and from build_component without a raise, makes
\* no node and no scratch collection, and emits exactly one warning.
C14_OneWarning ==
    [][MissingSlot => (NoOpForSlot /\ Len(log') = Len(log) + 1)]_vars

\* C14, amended: building a slot whose library path does not exist returns
\* from the loader with None and from build_component without a raise, makes
\* no node and no scratch collection, and build_component emits exactly one
\* warning for the skipped placement, after the loader's own warning that the
\* file was not found and, when the slot names no collection, after the
\* warning about the missing collection name: two or three warnings in all.
C14_OneSkipWarning ==
    [][MissingSlot =>
          /\ NoOpForSlot
          /\ log' = log \o NameWarning
                        \o <<Warning(CurSlot, "load_collection_from_blend", W_FILE),
                             Warning(CurSlot, "build_component", W_SKIP)>>]_vars

WarningsOf(s) == SelectSeq(log, LAMBDA w : w.slot = s)

\* C14 witness: a slot of a missing file that names no collection was built
\* with three warnings and no node, and another slot was placed.
C14_Witness ==
    \E s, t \in BuildSlotSet :
        /\ call[s] = "file_missing"
        /\ frame.manifest[s].blend_collection = NoneName
        /\ Len(WarningsOf(s)) = 3
        /\ Len(SelectSeq(WarningsOf(s), LAMBDA w : w.text = W_SKIP)) = 1
        /\ NodesOf(data, s) = {}
        /\ placed[t] # <<>>

\* Whether the manifest and the library files let slot s be placed: it has a
\* spec, is enabled, and names a library file that exists, can be listed and
\* holds a group that loads.
Placeable(s) ==
    LET sp == frame.manifest[s] IN
    /\ sp # <<>>
    /\ sp.enabled
    /\ sp.blend # <<>>
    /\ LET l == lib[ResolvePath(sp.blend)] IN
       /\ l.exists
       /\ l.listable
       /\ \E i \in 1..Len(l.groups) : l.groups[i].status # "raises"

\* The four nodes of slot s exist, chained under the rig root in the
\* components collection, the last one an instance of the loaded group.
ChainExists(s) ==
    LET o == data.objects IN
    /\ NodesOf(data, s) = ChainNames(s)
    /\ o[PIV_PREFIX \o s].parent = RIG_ROOT_OBJ
    /\ o[ROT_PREFIX \o s].parent = PIV_PREFIX \o s
    /\ o[OFF_PREFIX \o s].parent = ROT_PREFIX \o s
    /\ o[INST_PREFIX \o s].parent = OFF_PREFIX \o s
    /\ o[INST_PREFIX \o s].instance_type = "COLLECTION"
    /\ o[INST_PREFIX \o s].instance_collection = group.root
    /\ o[PIV_PREFIX \o s].location = frame.manifest[s].location_mm
    /\ \A n \in ChainNames(s) : UsersCollection(data, n) = {COMPONENTS}

\* The slots the loop is through with.
SlotsDone ==
    IF At("components") THEN {BuildSlots[j] : j \in 1..(frame.i - 1)} ELSE BuildSlotSet

\* Short of the saved file the build has a next step: a slot that loads is
\* placed, and any other case is one of the steps that go on.
CanStep ==
    \/ ENABLED (SkipNoSpec \/ SkipDisabled \/ SkipNoBlend \/ DeleteCameras \/ Save)
    \/ InLoop /\ HasBlend /\ (LoadForSlot.ret # NoneName \/ ENABLED SkipNotLoaded)

\* C15: whatever slots of the manifest are absent, disabled, without a path,
\* or name a library that is missing or cannot be loaded, the build never
\* aborts and never stops short of the save (until the file is saved there
\* is a next step), each slot is gone through in turn, and every slot gone
\* through has its chain of four nodes if it can be placed and no node if
\* it cannot - so at the save every placeable slot is placed.
C15_BuildCompletes ==
    /\ ~At("crashed")
    /\ At("saved") \/ CanStep
    /\ At("components") \/ At("save") \/ At("saved")
    /\ \A s \in SlotsDone :
          /\ call[s] # "none"
          /\ IF Placeable(s) THEN ChainExists(s) ELSE NodesOf(data, s) = {}
    /\ \A s \in BuildSlotSet \ SlotsDone : call[s] = "none" /\ NodesOf(data, s) = {}

\* C15 witness: the build was saved with the first and the third slot
\* failing (a missing file, a raising library) and the second and the fourth
\* placed.
C15_Witness ==
    /\ At("saved")
    /\ call[BuildSlots[1]] = "file_missing"
    /\ call[BuildSlots[3]] = "none_loadable"
    /\ ChainExists(BuildSlots[2])
    /\ ChainExists(BuildSlots[4])
    /\ NodesOf(data, BuildSlots[1]) = {}
    /\ NodesOf(data, BuildSlots[3]) = {}

---------------------------------------------------------------------------
(* Properties of the anchor resolver, checked under SpecAnchor             *)

Resolved == At("resolved")

\* The nodes of the group, and the first of a set of them in the order the
\* group enumerates them.
GroupNodes == {group.order[i] : i \in 1..Len(group.order)}

FirstEnumerated(S) ==
    CHOOSE o \in S : \A q \in S : FirstIndex(o, group.order) <= FirstIndex(q, group.order)

\* The rungs of the lookup of the requested anchor name.
ExactMatches == {o \in GroupNodes : o = frame.anchor_name}

StrippedMatches == {o \in GroupNodes : BaseName(o) = BaseName(frame.anchor_name)}

CaselessMatches ==
    {o \in GroupNodes : Lower(BaseName(o)) = Lower(BaseName(frame.anchor_name))}

SceneMatches == {o \in DOMAIN data.objects : BaseName(o) = BaseName(frame.anchor_name)}

\* C16: the node an anchor name resolves to is the group node of exactly
\* that name; else the first enumerated group node of that name up to a
\* trailing .<digits>; else the first enumerated group node of that name up
\* to the suffix and to case; else a node of the scene of the same base
\* name; else none. Foo resolves to the node named Foo whether Foo or
\* Foo.001 is enumerated first.
C16_LookupPrecedence ==
    (Resolved /\ frame.anchor_name # NoneName) =>
        LET e == frame.explicit_obj IN
        /\ ExactMatches # {} => e = frame.anchor_name
        /\ (ExactMatches = {} /\ StrippedMatches # {}) => e = FirstEnumerated(StrippedMatches)
        /\ (StrippedMatches = {} /\ CaselessMatches # {}) => e = FirstEnumerated(CaselessMatches)
        /\ (CaselessMatches = {} /\ SceneMatches # {}) => e \in SceneMatches
        /\ (CaselessMatches = {} /\ SceneMatches = {}) => e = NoneName
        /\ frame.pivot_mode = "OBJECT" => frame.reason.name = IF e = NoneName THEN frame.anchor_name ELSE e

\* C16 witness: Foo.001 is enumerated before Foo, Foo is requested, and the
\* call returned the place of the node named Foo.
C16_Witness ==
    /\ Resolved
    /\ group = TemplateFooLast
    /\ frame.anchor_name = N_Foo
    /\ frame.pivot_mode = "OBJECT"
    /\ frame.explicit_obj = N_Foo
    /\ frame.reason = [branch |-> "OBJECT", name |-> N_Foo]
    /\ frame.offset = <<1, 2, 3>>


\* The evaluation context of the call was established: both links made
\* and the dependency graph evaluated.
Established == ctx.did_link_helper /\ ctx.did_link_child /\ ctx.depsgraph # "None"

\* The world translation of node o as the group was authored: the local
\* translations summed up the parent chain.
TrueTranslation(o) ==
    WorldTranslation(BaseData(group), o, Cardinality(DOMAIN BaseData(group).objects))

\* The offset is the translation _eval_translation read from node o: the
\* evaluated world translation when the context was established, and in
\* any case the matrix the node is left with (a stale one when a link or
\* the evaluation failed and was swallowed).
OffsetReadFrom(o) ==
    /\ frame.offset = data.objects[o].matrix_world
    /\ Established => frame.offset = TrueTranslation(o)

\* Some node matches the requested anchor name on some rung of the lookup.
AnchorFound ==
    /\ frame.anchor_name # NoneName
    /\ CaselessMatches \cup SceneMatches # {}

Renderable ==
    {o \in GroupNodes : group.objects[o].type \in MeshLike /\ group.objects[o].bound_box # <<>>}

\* The axis-aligned box around the renderable nodes, each standing at
\* Pos(o): per axis the least low corner and the greatest high corner.
BoxLo(Pos(_)) ==
    [k \in 1..3 |-> MinOf({Pos(o)[k] + group.objects[o].bound_box[1][k] : o \in Renderable})]

BoxHi(Pos(_)) ==
    [k \in 1..3 |-> MaxOf({Pos(o)[k] + group.objects[o].bound_box[2][k] : o \in Renderable})]

BoxPoint(mode, Pos(_)) ==
    IF mode = "BBOX_MIN" THEN BoxLo(Pos)
    ELSE [k \in 1..3 |-> (BoxLo(Pos)[k] + BoxHi(Pos)[k]) \div 2]

StoredAt(o) == data.objects[o].matrix_world

Markers == {o \in GroupNodes : group.objects[o].type = "EMPTY"}

TopMarkers ==
    {o \in Markers : \A q \in Markers :
        ScoreAnchorCandidate(data, o) >= ScoreAnchorCandidate(data, q)}

\* The marker RIG_ROOT mode settles on by score: the first enumerated of the
\* highest-scoring ones, if that score is above `least`.
MarkerAbove(least) ==
    IF Markers # {} /\ ScoreAnchorCandidate(data, FirstEnumerated(TopMarkers)) > least
    THEN FirstEnumerated(TopMarkers) ELSE NoneName

RigRootByScore ==
    IF MarkerAbove(0) # NoneName
    THEN /\ frame.reason = [branch |-> "RIG_ROOT auto", name |-> MarkerAbove(0)]
         /\ OffsetReadFrom(MarkerAbove(0))
    ELSE /\ frame.offset = Zero3
         /\ frame.reason = [branch |-> "RIG_ROOT not found; using ORIGIN", name |-> NoneName]

---------------------------------------------------------------------------
(* Properties of the resolver across placements, checked under SpecPlace   *)

\* The nodes instancing creates.
ChainNodes == UNION {ChainNames(s) : s \in SlotNames}

\* The pivot settings tried against every state: those of the placements,
\* a name nothing has, and the name of a node that instancing creates.
ProbeSpecs ==
    PivotSpecs
    \cup {[pivot_mode |-> "OBJECT", anchor_object |-> N_MISSING]}
    \cup {[pivot_mode |-> "OBJECT", anchor_object |-> PIV_PREFIX \o s] : s \in SlotNames}

\* The group as loaded: never instanced, never evaluated.
NeverInstanced == BaseData(group)

SameResolution(a, b) == a.offset = b.offset /\ a.reason = b.reason

\* The faults under which __enter__ still establishes the context.
ContextHolds(faults) == faults \cap {"link_helper", "link_child", "evaluate"} = {}

\* The anchor name of spec resolves to a node that instancing created.
ResolvesToChain(spec) ==
    ExplicitObj(data, AllObjects(data, group.root), spec.anchor_object) \in ChainNodes

---------------------------------------------------------------------------
(* The warnings of a build, checked under SpecBuild                        *)

\* Slot s was placed by an OBJECT anchor that no node of the group or of the
\* scene has: choose_anchor_offset returned (0,0,0) and the reason of the
\* miss.
AnchorMissed(s) ==
    /\ placed[s] # <<>>
    /\ placed[s].args.spec.pivot_mode = "OBJECT"
    /\ FindObjectByBaseName(group.order, placed[s].args.spec.anchor_object) = NoneName
    /\ \A o \in DOMAIN data.objects :
          BaseName(o) # BaseName(placed[s].args.spec.anchor_object)
    /\ placed[s].anchor_offset = Zero3

\* A warning of build_component that names slot s.
SlotWarned(s) == \E i \in 1..Len(log) : log[i].slot = s /\ log[i].by = "build_component"

\* C22: every slot that met a recoverable condition while it was built - its
\* library file missing, no group of it loadable, its anchor name not found -
\* has a warning that names the slot.
C22_EveryConditionWarned ==
    \A s \in BuildSlotSet :
        (call[s] \in {"file_missing", "none_loadable"} \/ AnchorMissed(s)) => SlotWarned(s)

---------------------------------------------------------------------------
(* The context around a group that cannot be attached, under SpecAnchor    *)

\* The call's helper.children.link(coll) raised.
AttachFailed == Resolved /\ ctx.helper # NoneName /\ ~ctx.did_link_child

\* The collections that hold the group as a child.
AttachedUnder(d) == {c \in DOMAIN d.children : group.root \in d.children[c]}

---------------------------------------------------------------------------
(* _score_anchor_candidate on its own: one node of a scene, scored         *)

N_RIG_JOYSTICK_ROOT == <<"R", "I", "G", "_", "J", "O", "Y", "S", "T", "I", "C", "K", "_", "R", "O", "O", "T">>
N_RIG_PCB_ROOT == <<"R", "I", "G", "_", "P", "C", "B", "_", "R", "O", "O", "T">>
N_RIG_PCB_G_ == <<"R", "I", "G", "_", "P", "C", "B", "_", "G", "_">>

\* Names of the scored node: plain ones, ones that meet one or several of the
\* name rules, the names the function spells out, and longer names that
\* begin with them.
ScoreNames ==
    {<<"C", "u", "b", "e">>, <<"R", "O", "O", "T">>, <<"X", "_", "R", "O", "O", "T">>, <<"R", "O", "O", "T", "S">>, <<"r", "o", "o", "t">>, N_RIG_A, <<"R", "I", "G", "_", "A", "_", "R", "O", "O", "T">>, <<"X", "R", "I", "G", "_">>,
     N_RIG_STAGE_ROOT, <<"R", "I", "G", "_", "S", "T", "A", "G", "E", "_", "R", "O", "O", "T", "_", "B">>, N_RIG_JOYSTICK_ROOT, <<"R", "I", "G", "_", "J", "O", "Y", "S", "T", "I", "C", "K", "_", "R", "O", "O", "T", "S">>,
     N_RIG_PCB_ROOT, <<"R", "I", "G", "_", "P", "C", "B", "_", "R", "O", "O", "T", "_", "B">>, N_RIG_PCB_G_, <<"R", "I", "G", "_", "P", "C", "B", "_", "G", "_", "1">>, <<"R", "I", "G", "_", "P", "C", "B", "_", "G", "_", "R", "O", "O", "T">>,
     <<"R", "I", "G", "_", "P", "C", "B">>}

\* The numeric suffixes Blender appends to a duplicated name.
ScoreSuffixes == {<<>>, <<".", "0", "0", "1">>, <<".", "1", "2">>}

\* obj.users_collection of the scored node: the group's collection, the
\* scene's rig collection, or both.
ScoreHomes == {{TemplateBox.root}, {RIG_COL}, {TemplateBox.root, RIG_COL}}

\* The scene with one more node of the given name and type in `homes`.
WithNode(d, o, type, homes) ==
    [d EXCEPT !.objects = (o :> ObjRec(type, NoneName, Zero3, <<>>)) @@ @,
              !.objects_in = [c \in DOMAIN @ |-> IF c \in homes THEN @[c] \cup {o} ELSE @[c]]]

\* s = _score_anchor_candidate(obj) for one node of the scene.
Score ==
    \E o \in DOMAIN data.objects :
        /\ At("idle")
        /\ frame' = [frame EXCEPT !.pc = "scored",
                                  !.args = [obj |-> o, s |-> ScoreAnchorCandidate(data, o)]]
        /\ UNCHANGED <<data, group, ctx, log, snap, placed, loaderVars>>

\* The caller has the score.
ScoreReturn ==
    /\ At("scored")
    /\ frame' = IdleFrame
    /\ UNCHANGED <<data, group, ctx, log, snap, placed, loaderVars>>

ScoreInit ==
    /\ group = TemplateBox
    /\ \E n \in ScoreNames, x \in ScoreSuffixes, type \in {"EMPTY", "MESH"}, homes \in ScoreHomes :
          data = WithNode(BaseData(TemplateBox), n \o x, type, homes)
    /\ ctx = NoCtx
    /\ frame = IdleFrame
    /\ log = <<>>
    /\ snap = NoSnap
    /\ placed = <<>>
    /\ LoaderUnused

ScoreNext ==
    \/ Score
    \/ ScoreReturn

SpecScore == ScoreInit /\ [][ScoreNext]_vars

---------------------------------------------------------------------------
(* Properties of the score, checked under SpecScore                        *)

Scored == At("scored")

\* The points of the five rules on the node's type, its collections and its
\* suffix-stripped name b.
RulePoints(o, b) ==
      (IF data.objects[o].type = "EMPTY" THEN 5 ELSE 0)
    + (IF \E c \in DOMAIN data.objects_in :
             o \in data.objects_in[c] /\ StartsWith(c, RIG_PREFIX) THEN 100 ELSE 0)
    + (IF StartsWith(b, RIG_PREFIX) THEN 20 ELSE 0)
    + (IF EndsWith(b, <<"_", "R", "O", "O", "T">>) THEN 60 ELSE 0)
    + (IF Contains(b, <<"R", "O", "O", "T">>) THEN 30 ELSE 0)

\* The bonus of a name that is one of the four spelled out.
ExactBonus(b) ==
    CASE b = N_RIG_STAGE_ROOT -> 200
      [] b = N_RIG_JOYSTICK_ROOT -> 180
      [] b = N_RIG_PCB_ROOT -> 160
      [] b = N_RIG_PCB_G_ -> 150
      [] OTHER -> 0

\* The bonus of a name that is RIG_STAGE_ROOT or RIG_JOYSTICK_ROOT, or that
\* begins with RIG_PCB_G_ or RIG_PCB_ROOT.
PrefixBonus(b) ==
    CASE b = N_RIG_STAGE_ROOT -> 200
      [] b = N_RIG_JOYSTICK_ROOT -> 180
      [] StartsWith(b, N_RIG_PCB_ROOT) -> 160
      [] StartsWith(b, N_RIG_PCB_G_) -> 150
      [] OTHER -> 0

\* C24 as stated: the score of a node is the sum of the five rules on its
\* suffix-stripped name plus the bonus of that name when it is exactly
\* RIG_STAGE_ROOT (200), RIG_JOYSTICK_ROOT (180) or one of the PCB roots
\* (150, 160); no other name has a bonus.
C24_ExactNameBonus ==
    Scored => frame.args.s = RulePoints(frame.args.obj, BaseName(frame.args.obj))
                             + ExactBonus(BaseName(frame.args.obj))

\* C24, amended: the score of a node is the sum of the five rules on its
\* suffix-stripped name plus 200 when that name is RIG_STAGE_ROOT, 180 when
\* it is RIG_JOYSTICK_ROOT, 150 when it begins with RIG_PCB_G_ and 160 when
\* it begins with RIG_PCB_ROOT; no other name has a bonus.
C24_PrefixBonus ==
    Scored => frame.args.s = RulePoints(frame.args.obj, BaseName(frame.args.obj))
                             + PrefixBonus(BaseName(frame.args.obj))

\* A suffixed marker RIG_PCB_ROOT_B.001 of a rig collection scored 5 + 100 +
\* 20 + 30 + 160: it contains ROOT without ending in _ROOT, and has the
\* bonus of RIG_PCB_ROOT without being that name.
C24_Witness ==
    /\ Scored
    /\ frame.args.obj = <<"R", "I", "G", "_", "P", "C", "B", "_", "R", "O", "O", "T", "_", "B", ".", "0", "0", "1">>
    /\ data.objects[frame.args.obj].type = "EMPTY"
    /\ RIG_COL \in UsersCollection(data, frame.args.obj)
    /\ frame.args.s = 315

---------------------------------------------------------------------------
(* poster/blendlib.py: apply_manifest over its import_blend objects        *)

\* Most objects of a manifest.
MaxObjects == 2

N_WORLD == <<"W", "O", "R", "L", "D">>
N_Main == <<"M", "a", "i", "n">>
N_SRC_a == <<"S", "R", "C", "_", "a">>
ASSET_PREFIX == <<"A", "S", "S", "E", "T", "_">>

\* The groups the library file lists, in the order it enumerates them; each
\* holds meshes.
BlAvailable == <<N_Main, N_SRC_a>>

\* An import_blend entry: its name, whether it is enabled, the state of its
\* file (present with groups, absent, present without a group) and the
\* group it asks for. The requested names do not begin with EXPORT_.
ObjectConfigs ==
    {[name |-> n, enabled |-> TRUE, asset |-> a[1], blend_collection |-> a[2]] :
        n \in {<<"a">>, <<"b">>},
        a \in {<<"ok", NoneName>>, <<"ok", N_Main>>, <<"missing", NoneName>>,
               <<"no_collections", NoneName>>}}
    \cup {[name |-> n, enabled |-> FALSE, asset |-> "ok", blend_collection |-> NoneName] :
             n \in {<<"a">>, <<"b">>}}

\* cfg["objects"]
Manifests == UNION {[1..n -> ObjectConfigs] : n \in 1..MaxObjects}

\* A new file's data: the scene collection and nothing else.
EmptyScene ==
    [collections |-> {}, children |-> (SCENE_COLLECTION :> {}),
     objects_in |-> (SCENE_COLLECTION :> {}), objects |-> <<>>]

\* ensure_collection
EnsureCollection(d, name) ==
    LinkChild(IF name \in d.collections THEN d ELSE NewCollection(d, name),
              SCENE_COLLECTION, name)

\* ensure_child_collection
EnsureChildCollection(d, parent, name) ==
    LinkChild(IF name \in d.collections THEN d ELSE NewCollection(d, name), parent, name)

\* bpy.data.objects.remove(obj, do_unlink=True): the object leaves the data
\* and every collection; what it parented has no parent afterwards.
RemoveObjects(d, gone) ==
    [d EXCEPT !.objects =
                 Table([o \in DOMAIN @ \ gone |->
                           IF @[o].parent \in gone THEN [@[o] EXCEPT !.parent = NoneName]
                           ELSE @[o]]),
              !.objects_in = Table([c \in DOMAIN @ |-> @[c] \ gone])]

\* remove_collection_objects
RemoveCollectionObjects(d, col) == RemoveObjects(d, d.objects_in[col])

\* ensure_empty(name, [0, 0, 0]): a new empty is linked to the scene collection.
EnsureEmpty(d, name) ==
    [(IF name \in DOMAIN d.objects THEN d
      ELSE [NewObject(d, name) EXCEPT !.objects_in[SCENE_COLLECTION] = @ \cup {name}])
        EXCEPT !.objects[name].location = Zero3]

\* A move that leaves the object in the collections it was in.
MoveObjectToCollectionBl_KeepsLinks(d, obj, col) ==
    [d EXCEPT !.objects_in[col] = @ \cup {obj}]

\* blendlib.move_object_to_collection
MoveObjectToCollectionBl(d, obj, col) ==
    [d EXCEPT !.objects_in =
        Table([c \in DOMAIN @ |-> IF c = col THEN @[c] \cup {obj} ELSE @[c] \ {obj}])]

\* blendlib.load_collection_from_blend's candidates: the requested name, the
\* fallbacks, the EXPORT_ groups sorted, "Collection", then every group.
BlCandidates(requested, fallback_names, available) ==
    LET named == (IF requested # NoneName THEN <<requested>> ELSE <<>>) \o fallback_names
        export == SortedExport(available)
    IN  named \o export \o <<<<"C", "o", "l", "l", "e", "c", "t", "i", "o", "n">>>> \o available

\* The group load_collection_from_blend returns: the first candidate the
\* library has (each group of the library holds objects).
BlPicked(requested, fallback_names, available) ==
    LET cands == BlCandidates(requested, fallback_names, available)
    IN  cands[MinOf({i \in 1..Len(cands) : InSeq(cands[i], available)})]

\* SRC_<name>, EXPORT_<name>, <name>, "Collection"
BlFallback(name) == <<<<"S", "R", "C", "_">> \o name, <<"E", "X", "P", "O", "R", "T", "_">> \o name, name, <<"C", "o", "l", "l", "e", "c", "t", "i", "o", "n">>>>

\* The root and the instancer of an import_blend object once its group is
\* loaded.
InstanceGroup(d, name, asset_col, coll) ==
    LET inst == NewName(INST_PREFIX \o name, DOMAIN d.objects \ {INST_PREFIX \o name})
        loaded == IF coll \in d.collections THEN d ELSE NewCollection(d, coll)
        cleared == RemoveObjects(loaded, {INST_PREFIX \o name} \cap DOMAIN loaded.objects)
        linked == [NewObject(cleared, inst) EXCEPT !.objects_in[SCENE_COLLECTION] = @ \cup {inst}]
    IN  [MoveObjectToCollectionBl(linked, inst, asset_col)
            EXCEPT !.objects[inst].empty_display_type = "PLAIN_AXES",
                   !.objects[inst].instance_type = "COLLECTION",
                   !.objects[inst].instance_collection = coll,
                   !.objects[inst].parent = name]

\* ensure_imported_blend_asset: the scene it leaves and whether it raised
\* (FileNotFoundError of a missing file, RuntimeError of a library without
\* a group).
EnsureImportedBlendAsset(d, obj_cfg) ==
    LET asset_col == ASSET_PREFIX \o obj_cfg.name
        emptied == RemoveCollectionObjects(
                       EnsureChildCollection(EnsureCollection(d, N_WORLD), N_WORLD, asset_col),
                       asset_col)
        rooted == MoveObjectToCollectionBl(EnsureEmpty(emptied, obj_cfg.name),
                                           obj_cfg.name, asset_col)
    IN  IF obj_cfg.asset # "ok"
        THEN [data |-> rooted, raised |-> TRUE]
        ELSE [data |-> InstanceGroup(rooted, obj_cfg.name, asset_col,
                                     BlPicked(obj_cfg.blend_collection,
                                              BlFallback(obj_cfg.name), BlAvailable)),
              raised |-> FALSE]

\* apply_manifest up to its loop: the manifest is read and the standard
\* collections are ensured.
ApplyManifest ==
    \E objects \in Manifests :
        /\ At("idle")
        /\ data' = EnsureCollection(EnsureCollection(EnsureCollection(EnsureCollection(
                       data, N_WORLD), <<"O", "V", "E", "R", "L", "A", "Y">>), <<"H", "E", "L", "P", "E", "R", "S">>), <<"L", "I", "G", "H", "T", "S">>)
        /\ frame' = [IdleFrame EXCEPT !.pc = "objects", !.args = [objects |-> objects, i |-> 1]]
        /\ log' = <<>>
        /\ UNCHANGED <<group, ctx, snap, placed, loaderVars>>

\* One pass of `for obj_cfg in cfg.get("objects", [])` on a disabled entry.
SkipDisabledObject ==
    /\ At("objects")
    /\ frame.args.i <= Len(frame.args.objects)
    /\ ~frame.args.objects[frame.args.i].enabled
    /\ data' = data
    /\ frame' = [frame EXCEPT !.args.i = @ + 1]
    /\ log' = Append(log, [i |-> frame.args.i, outcome |-> "disabled"])
    /\ UNCHANGED <<group, ctx, snap, placed, loaderVars>>

\* One pass of the loop on an enabled entry: ensure_collection, then
\* ensure_imported_blend_asset, whose exception nothing in apply_manifest
\* catches.
BuildObject ==
    /\ At("objects")
    /\ frame.args.i <= Len(frame.args.objects)
    /\ frame.args.objects[frame.args.i].enabled
    /\ \E r \in {EnsureImportedBlendAsset(EnsureCollection(data, N_WORLD),
                                          frame.args.objects[frame.args.i])} :
          /\ data' = r.data
          /\ frame' = IF r.raised THEN [frame EXCEPT !.pc = "raised", !.raised = TRUE]
                      ELSE [frame EXCEPT !.args.i = @ + 1]
          /\ log' = Append(log, [i |-> frame.args.i,
                                 outcome |-> IF r.raised THEN "raised" ELSE "built"])
    /\ UNCHANGED <<group, ctx, snap, placed, loaderVars>>

\* The loop is over: apply_manifest returns cfg.
ManifestReturn ==
    /\ At("objects")
    /\ frame.args.i = Len(frame.args.objects) + 1
    /\ frame' = [frame EXCEPT !.pc = "returned"]
    /\ UNCHANGED <<data, group, ctx, log, snap, placed, loaderVars>>

\* The script that called apply_manifest is over, by a return or by the
\* exception; the scene stays open for the next run.
ScriptEnds ==
    /\ At("returned") \/ At("raised")
    /\ frame' = IdleFrame
    /\ UNCHANGED <<data, group, ctx, log, snap, placed, loaderVars>>

ManifestInit ==
    /\ data = EmptyScene
    /\ group = NoGroup
    /\ ctx = NoCtx
    /\ frame = IdleFrame
    /\ log = <<>>
    /\ snap = NoSnap
    /\ placed = <<>>
    /\ LoaderUnused

ManifestNext ==
    \/ ApplyManifest
    \/ SkipDisabledObject
    \/ BuildObject
    \/ ManifestReturn
    \/ ScriptEnds

SpecManifest == ManifestInit /\ [][ManifestNext]_vars

---------------------------------------------------------------------------
(* Properties of apply_manifest, checked under SpecManifest                *)

\* The outcome of entry j in this run, "none" when the run did not reach it.
OutcomeOf(j) ==
    IF \E k \in 1..Len(log) : log[k].i = j
    THEN log[CHOOSE k \in 1..Len(log) : log[k].i = j].outcome
    ELSE "none"

\* The run is over, by a return or by an exception.
RunOver == At("returned") \/ At("raised")

\* C25: a run of apply_manifest ends by its return, whatever the state of
\* the files of its import_blend entries; at the end, of the enabled
\* entries, every one whose file is there and has groups was built, those
\* listed after an entry with a missing or broken file included.
C25_BadAssetSkipsOnlyItself ==
    /\ ~At("raised")
    /\ RunOver =>
          \A j \in 1..Len(frame.args.objects) :
              (frame.args.objects[j].enabled /\ frame.args.objects[j].asset = "ok")
                  => OutcomeOf(j) = "built"


\* The entry the loop has just built.
JustBuilt ==
    IF At("objects") /\ log # <<>> /\ log[Len(log)].outcome = "built"
    THEN frame.args.objects[log[Len(log)].i]
    ELSE [name |-> NoneName]

\* The group an entry selects in the library: the one it asks for, else
\* SRC_<name> when the library has it, else the first the library lists.
SelectedGroup(obj_cfg) ==
    IF obj_cfg.blend_collection # NoneName THEN obj_cfg.blend_collection
    ELSE IF obj_cfg.name = <<"a">> THEN N_SRC_a ELSE N_Main

\* C26: after a call of ensure_imported_blend_asset for <name> that
\* returned, whatever calls came before it, the scene has one empty <name>
\* and one instancer INST_<name> (none under a suffixed name), each in the
\* collection ASSET_<name> and in no other, the instancer parented to the
\* root and instancing the group the entry selects, and ASSET_<name> holds
\* these two objects and nothing else.
C26_RepeatedBuildsConverge ==
    JustBuilt.name # NoneName =>
        \E root \in {JustBuilt.name}, inst \in {INST_PREFIX \o JustBuilt.name},
           asset_col \in {ASSET_PREFIX \o JustBuilt.name} :
            /\ {root, inst} \subseteq DOMAIN data.objects
            /\ data.objects[root].type = "EMPTY"
            /\ {o \in DOMAIN data.objects : BaseName(o) \in {root, inst}} = {root, inst}
            /\ UsersCollection(data, root) = {asset_col}
            /\ UsersCollection(data, inst) = {asset_col}
            /\ data.objects_in[asset_col] = {root, inst}
            /\ data.objects[inst].parent = root
            /\ data.objects[inst].instance_type = "COLLECTION"
            /\ data.objects[inst].instance_collection = SelectedGroup(JustBuilt)

\* The same name built twice in one run, first instancing Main and then
\* SRC_a: the instancer of the first call is not the one in the scene.
C26_Witness ==
    /\ Len(log) = 2
    /\ log[1].outcome = "built" /\ log[2].outcome = "built"
    /\ frame.args.objects[1].name = <<"a">> /\ frame.args.objects[2].name = <<"a">>
    /\ frame.args.objects[1].blend_collection = N_Main
    /\ frame.args.objects[2].blend_collection = NoneName
    /\ data.objects[INST_PREFIX \o <<"a">>].instance_collection = N_SRC_a
    /\ Cardinality(data.objects_in[ASSET_PREFIX \o <<"a">>]) = 2

---------------------------------------------------------------------------
(* stage/build.py: apply_local_z_delta_deg on one rig empty                *)

\* Most calls of apply_local_z_delta_deg on the object.
MaxCalls == 3

\* Quaternions (w, x, y, z) with integer components: the rotations by 0, by
\* 180 and by 360 degrees about the axes, with both signs.
QOne == <<1, 0, 0, 0>>

QNeg(q) == <<-q[1], -q[2], -q[3], -q[4]>>

HalfTurns == {QOne, <<0, 1, 0, 0>>, <<0, 0, 1, 0>>, <<0, 0, 0, 1>>}

UnitQuats == HalfTurns \cup {QNeg(q) : q \in HalfTurns}

\* a @ b on mathutils.Quaternion: the Hamilton product.
QMul(a, b) ==
    <<a[1] * b[1] - a[2] * b[2] - a[3] * b[3] - a[4] * b[4],
      a[1] * b[2] + a[2] * b[1] + a[3] * b[4] - a[4] * b[3],
      a[1] * b[3] - a[2] * b[4] + a[3] * b[1] + a[4] * b[2],
      a[1] * b[4] + a[2] * b[3] - a[3] * b[2] + a[4] * b[1]>>

\* yaw_deg and pitch_deg of a frame, times the sign of the rig.
DeltaDegs == {0, 180, -180, 360}

\* Quaternion((0, 0, 1), math.radians(delta_deg)): (cos(d/2), 0, 0, sin(d/2)).
QDelta(delta_deg) ==
    CASE delta_deg = 0 -> <<1, 0, 0, 0>>
      [] delta_deg = 180 -> <<0, 0, 0, 1>>
      [] delta_deg = -180 -> <<0, 0, 0, -1>>
      [] delta_deg = 360 -> <<-1, 0, 0, 0>>

\* Euler angles in degrees of an object in XYZ mode: a half turn about at
\* most one axis.
EulerInputs == {<<0, 0, 0>>, <<180, 0, 0>>, <<0, 180, 0>>, <<0, 0, 180>>}

\* The quaternion of an XYZ Euler rotation (a half turn about one axis).
EulerToQuat(e) ==
    CASE e = <<0, 0, 0>> -> <<1, 0, 0, 0>>
      [] e = <<180, 0, 0>> -> <<0, 1, 0, 0>>
      [] e = <<0, 180, 0>> -> <<0, 0, 1, 0>>
      [] e = <<0, 0, 180>> -> <<0, 0, 0, 1>>

\* A mode switch that leaves the stored values as they are.
SetRotationMode_NoConvert(obj, mode) == [obj EXCEPT !.rotation_mode = mode]

\* obj.rotation_mode = mode: Blender converts the stored rotation of the old
\* mode into the values of the new one.
SetRotationMode(obj, mode) ==
    IF obj.rotation_mode = mode THEN obj
    ELSE [obj EXCEPT !.rotation_mode = mode,
                     !.rotation_quaternion = EulerToQuat(obj.rotation_euler)]

\* The rotation the object has: the values of its rotation mode.
Rotation(obj) ==
    IF obj.rotation_mode = "QUATERNION" THEN obj.rotation_quaternion
    ELSE EulerToQuat(obj.rotation_euler)

BASE_PROP == "__base_q"

\* list(q) and Quaternion(list): the four components, in a custom property.
QuatToList(q) == [i \in 1..4 |-> q[i]]

ListToQuat(l) == <<l[1], l[2], l[3], l[4]>>

\* apply_local_z_delta_deg(obj, delta_deg)
ApplyLocalZDeltaDeg(obj, delta_deg) ==
    LET moded == SetRotationMode(obj, "QUATERNION")
        kept == IF BASE_PROP \in DOMAIN moded.props THEN moded
                ELSE [moded EXCEPT !.props = (BASE_PROP :> QuatToList(moded.rotation_quaternion)) @@ @]
        base_q == ListToQuat(kept.props[BASE_PROP])
    IN  [kept EXCEPT !.rotation_quaternion = QMul(base_q, QDelta(delta_deg))]

\* A duplicate of a rig empty as duplicate_objects_linked makes it: in
\* either rotation mode, the values of the other mode left over, no custom
\* property.
RigEmpties ==
    [rotation_mode : {"XYZ", "QUATERNION"}, rotation_euler : EulerInputs,
     rotation_quaternion : UnitQuats, props : {<<>>}]

\* build_layout's call for the yaw or the pitch of a frame.
ApplyDelta ==
    \E delta_deg \in DeltaDegs :
        /\ At("idle")
        /\ Len(log) < MaxCalls
        /\ data' = ApplyLocalZDeltaDeg(data, delta_deg)
        /\ log' = Append(log, delta_deg)
        /\ frame' = [frame EXCEPT !.pc = "applied"]
        /\ UNCHANGED <<group, ctx, snap, placed, loaderVars>>

\* apply_local_z_delta_deg has returned.
ApplyReturn ==
    /\ At("applied")
    /\ frame' = [frame EXCEPT !.pc = "idle"]
    /\ UNCHANGED <<data, group, ctx, log, snap, placed, loaderVars>>

\* snap keeps the object as it was before the first call.
StageInit ==
    /\ data \in RigEmpties
    /\ snap = data
    /\ group = NoGroup
    /\ ctx = NoCtx
    /\ frame = IdleFrame
    /\ log = <<>>
    /\ placed = <<>>
    /\ LoaderUnused

StageNext ==
    \/ ApplyDelta
    \/ ApplyReturn

SpecStage == StageInit /\ [][StageNext]_vars

---------------------------------------------------------------------------
(* Properties of apply_local_z_delta_deg, checked under SpecStage          *)

\* C27: after any calls with deltas d1..dn (n >= 1) the rotation of the
\* object is base * Rz(dn), base being the rotation it had before the first
\* call, and the __base_q property holds base.
C27_DeltaDoesNotAccumulate ==
    log # <<>> =>
        /\ data.rotation_mode = "QUATERNION"
        /\ Rotation(data) = QMul(Rotation(snap), QDelta(log[Len(log)]))
        /\ BASE_PROP \in DOMAIN data.props
        /\ ListToQuat(data.props[BASE_PROP]) = Rotation(snap)

\* Three calls on an empty that was in XYZ mode, turned half about X, with
\* another quaternion left over: the deltas 180, 180, -180 in turn leave
\* base * Rz(-180), which is not the product of the three.
C27_Witness ==
    /\ At("applied")
    /\ log = <<180, 180, -180>>
    /\ snap.rotation_mode = "XYZ"
    /\ snap.rotation_euler = <<180, 0, 0>>
    /\ snap.rotation_quaternion = <<0, 0, 1, 0>>
    /\ data.rotation_quaternion = QMul(<<0, 1, 0, 0>>, <<0, 0, 0, -1>>)
    /\ data.rotation_quaternion #
          QMul(QMul(QMul(<<0, 1, 0, 0>>, QDelta(180)), QDelta(180)), QDelta(-180))

---------------------------------------------------------------------------
(* The cache across calls, checked under SpecLoader                        *)

\* fallback_names lists a later call may come with: those of LoadInputs and
\* lists that put other groups first.
ProbeFallbacks == FallbackLists \cup {<<N_EXPORT_A>>, <<N_EXPORT_B, N_Z>>, <<N_EXPORT, N_EXPORT_A>>}

\* What a search of the library with an empty cache picks.
ColdPick(collection_name, fallback_names) ==
    PickLoop(lib, BuildCandidates(collection_name, fallback_names, Available(lib)),
             NoneName, <<>>).picked

\* C28: a call whose key an earlier call has put in the cache returns the
\* handle of that entry, and so would a call with the same key and any other
\* list of fallback names, also a list with which a search of the library
\* picks another group.
C28_HitIgnoresFallbacks ==
    [][KeyOf(call') \in DOMAIN cache =>
          /\ call'.ret = cache[KeyOf(call')]
          /\ call'.ret # NoneName
          /\ \A f \in ProbeFallbacks :
                LoadResult(lib, cache, BLEND_PATH, call'.requested, f, call'.link).ret
                    = cache[KeyOf(call')]]_vars

\* A hit of a call without a requested name whose fallback names would have
\* a search pick Z, the entry holding a group that an earlier call without
\* fallback names had picked.
C28_Witness ==
    /\ call.outcome = "hit"
    /\ call.requested = NoneName
    /\ call.fallbacks # <<>>
    /\ ColdPick(call.requested, call.fallbacks) = N_Z
    /\ ColdPick(call.requested, <<>>) = call.ret
    /\ call.ret # N_Z

\* C29: every entry of the cache holds a group the library loaded (never
\* None); a call that returns None leaves the cache as it was and its key
\* out of it, and a call whose key is not in the cache goes to the library
\* again; an entry of the cache stays, with the handle it has.
C29_CacheHoldsLoadedGroups ==
    [][/\ \A k \in DOMAIN cache' :
              /\ cache'[k] # NoneName
              /\ LoadStatus(lib, cache'[k]) \in {"nonempty", "empty"}
       /\ call'.ret = NoneName => (cache' = cache /\ KeyOf(call') \notin DOMAIN cache')
       /\ (KeyOf(call') \notin DOMAIN cache /\ lib.exists) =>
              (call'.outcome # "hit" /\ call'.listed)
       /\ \A k \in DOMAIN cache : k \in DOMAIN cache' /\ cache'[k] = cache[k]]_vars

\* A search for Z with fallback names that tried two groups and loaded
\* neither: the call returned None and the cache has no entry, so the next
\* call with this key searches again.
C29_Witness ==
    /\ call.outcome = "none_loadable"
    /\ ~call.had
    /\ call.requested = N_Z
    /\ call.fallbacks # <<>>
    /\ Len(call.tried) >= 2
    /\ call.ret = NoneName
    /\ KeyOf(call) \notin DOMAIN cache

---------------------------------------------------------------------------
(* The chains of the other slots, checked under SpecPlace                  *)

\* The chain of slot s in data d: its nodes with all their fields (parent,
\* local transform, instanced group) and the collections that hold them.
ChainState(d, s) ==
    [o \in NodesOf(d, s) |-> [fields |-> d.objects[o], users |-> UsersCollection(d, o)]]

\* C30: a call of instance_collection_pivoted for one slot leaves the chain
\* of every other slot as it was: the same nodes PIV_, ROT_, OFF_ and INST_,
\* each with its parent, its local transform, its collections and its
\* instanced group; no call changes the chains of two slots.
C30_OtherChainsUntouched ==
    [][/\ \A b \in SlotNames :
              (placed'[b] = placed[b] /\ \E a \in SlotNames \ {b} : placed'[a] # placed[a])
                  => ChainState(data', b) = ChainState(data, b)
       /\ Cardinality({s \in SlotNames : ChainState(data', s) # ChainState(data, s)}) <= 1]_vars

\* Both slots placed, one of them more than once and last at another
\* location than the other, whose chain is still as its one call left it.
C30_Witness ==
    \E a, b \in PlacedSlots :
        /\ a # b
        /\ placed[a].rebuilt
        /\ ~placed[b].rebuilt
        /\ placed[a].args.location_mm # placed[b].args.location_mm
        /\ ChainAsPlaced(b)
        /\ ChainAsPlaced(a)

=============================================================================
